---- MODULE Spec2Model ----
(***************************************************************************)
(* Debt repayment optimization engine of round-up-repay-cloud:             *)
(* the three allocation strategies, the OptimizationEngine facade and its  *)
(* month-by-month savings projection.                                      *)
(*                                                                         *)
(* Numbers.  The source computes on IEEE doubles.  Here every finite       *)
(* number is an exact rational [n, d] in lowest terms (d > 0), so          *)
(* availableFunds * 0.7 and balance * rate / 12 keep their fractional      *)
(* parts; the double rounding error (below 1e-9 of a currency unit on the  *)
(* inputs explored) is not represented.  The non-finite doubles a          *)
(* division by zero produces (Infinity, -Infinity, NaN) are kept as        *)
(* separate kinds of value.                                                *)
(***************************************************************************)
EXTENDS Integers, Sequences, FiniteSets, TLC

(***************************************************************************)
(* Bounds of the exploration.                                              *)
(***************************************************************************)
MaxAccounts == 2
MaxMonths == 3

(***************************************************************************)
(* Exact rational arithmetic.                                              *)
(***************************************************************************)
Abs(i) == IF i < 0 THEN -i ELSE i

RECURSIVE GCD(_, _)
GCD(a, b) == IF b = 0 THEN a ELSE GCD(b, a % b)

Rat(n, d) ==
  LET g == GCD(Abs(n), d)
  IN  IF n = 0 THEN [n |-> 0, d |-> 1] ELSE [n |-> n \div g, d |-> d \div g]

RInt(i) == [n |-> i, d |-> 1]
RZero == RInt(0)

RNeg(a) == [n |-> -a.n, d |-> a.d]

RAdd(a, b) ==
  LET g == GCD(a.d, b.d)
  IN  Rat(a.n * (b.d \div g) + b.n * (a.d \div g), (a.d \div g) * b.d)

RSub(a, b) == RAdd(a, RNeg(b))

RMul(a, b) ==
  LET g1 == GCD(Abs(a.n), b.d)
      g2 == GCD(Abs(b.n), a.d)
      h1 == IF g1 = 0 THEN 1 ELSE g1
      h2 == IF g2 = 0 THEN 1 ELSE g2
  IN  Rat((a.n \div h1) * (b.n \div h2), (a.d \div h2) * (b.d \div h1))

\* a / b for b # 0
RDiv(a, b) ==
  IF b.n > 0 THEN RMul(a, [n |-> b.d, d |-> b.n])
             ELSE RMul(a, [n |-> -b.d, d |-> -b.n])

RLt(a, b) ==
  LET g == GCD(a.d, b.d)
  IN  a.n * (b.d \div g) < b.n * (a.d \div g)

RLe(a, b) == ~RLt(b, a)
RPos(a) == a.n > 0

\* Math.min on finite numbers
MathMin(a, b) == IF RLt(b, a) THEN b ELSE a

\* Math.ceil on a finite number, as an integer
RCeil(a) == -((-a.n) \div a.d)

(***************************************************************************)
(* Doubles that may be non-finite: the result of the baseline division.    *)
(***************************************************************************)
Fin(r) == [kind |-> "finite", val |-> r]
PosInf == [kind |-> "Infinity", val |-> RZero]
NegInf == [kind |-> "-Infinity", val |-> RZero]
NaN == [kind |-> "NaN", val |-> RZero]

\* a / b on doubles, a and b finite
XDiv(a, b) ==
  IF b.n # 0 THEN Fin(RDiv(a, b))
  ELSE IF a.n > 0 THEN PosInf
  ELSE IF a.n < 0 THEN NegInf
  ELSE NaN

\* Math.ceil keeps Infinity and NaN
XCeil(x) == IF x.kind = "finite" THEN Fin(RInt(RCeil(x.val))) ELSE x

\* r * x, r finite
XMul(r, x) ==
  IF x.kind = "finite" THEN Fin(RMul(r, x.val))
  ELSE IF x.kind = "NaN" \/ r.n = 0 THEN NaN
  ELSE IF (r.n > 0) = (x.kind = "Infinity") THEN PosInf
  ELSE NegInf

XAdd(x, y) ==
  IF x.kind = "NaN" \/ y.kind = "NaN" THEN NaN
  ELSE IF x.kind = "finite" /\ y.kind = "finite" THEN Fin(RAdd(x.val, y.val))
  ELSE IF x.kind = "finite" THEN y
  ELSE IF y.kind = "finite" THEN x
  ELSE IF x.kind = y.kind THEN x
  ELSE NaN

\* x - r, r finite
XSub(x, r) == IF x.kind = "finite" THEN Fin(RSub(x.val, r)) ELSE x

(***************************************************************************)
(* Strings are sequences of one-character strings, so that toLowerCase     *)
(* is computed character by character.                                     *)
(***************************************************************************)
UpperToLower ==
  [c \in {"A", "B", "C", "D", "E", "F", "G", "H", "I", "J", "K", "L", "M",
          "N", "O", "P", "Q", "R", "S", "T", "U", "V", "W", "X", "Y", "Z"} |->
     CASE c = "A" -> "a" [] c = "B" -> "b" [] c = "C" -> "c" [] c = "D" -> "d"
       [] c = "E" -> "e" [] c = "F" -> "f" [] c = "G" -> "g" [] c = "H" -> "h"
       [] c = "I" -> "i" [] c = "J" -> "j" [] c = "K" -> "k" [] c = "L" -> "l"
       [] c = "M" -> "m" [] c = "N" -> "n" [] c = "O" -> "o" [] c = "P" -> "p"
       [] c = "Q" -> "q" [] c = "R" -> "r" [] c = "S" -> "s" [] c = "T" -> "t"
       [] c = "U" -> "u" [] c = "V" -> "v" [] c = "W" -> "w" [] c = "X" -> "x"
       [] c = "Y" -> "y" [] c = "Z" -> "z"]

\* String.prototype.toLowerCase
ToLowerCase(str) ==
  [i \in 1..Len(str) |->
     IF str[i] \in DOMAIN UpperToLower THEN UpperToLower[str[i]] ELSE str[i]]

KeyAvalanche == <<"a", "v", "a", "l", "a", "n", "c", "h", "e">>
KeySnowball == <<"s", "n", "o", "w", "b", "a", "l", "l">>
KeyHybrid == <<"h", "y", "b", "r", "i", "d">>

(***************************************************************************)
(* Inputs of one call.  An account is a DebtAccount reduced to the fields  *)
(* the engine reads; accountId is unique within a list.                    *)
(***************************************************************************)
Pct(p) == Rat(p, 100)

\* <<currentBalance, interestRate (annual, percent), minimumPayment>>
AccountPool ==
  { <<500, 60, 50>>,     \* high interest and low balance
    <<1000, 12, 50>>,    \* low interest, balance at the low-balance threshold
    <<1200, 12, 110>>,   \* in neither group of the hybrid strategy
    <<1200, 12, 12>>,    \* minimum payment equal to the monthly interest
    <<0, 15, 0>>,        \* paid off, rate at the high-interest threshold
    <<-50, 60, 10>>,     \* negative balance
    <<2000, 60, 10>>,    \* high interest, minimum payment below the interest
    <<300, 0, 0>> }      \* interest free, no minimum payment

AccountIds == <<"acc1", "acc2", "acc3", "acc4">>

MakeAccount(i, p) ==
  [accountId |-> AccountIds[i],
   currentBalance |-> RInt(p[1]),
   interestRate |-> Pct(p[2]),
   minimumPayment |-> RInt(p[3])]

AccountLists ==
  UNION { { [i \in 1..k |-> MakeAccount(i, ps[i])] : ps \in [1..k -> AccountPool] }
          : k \in 0..MaxAccounts }

FundsValues == { RInt(-100), RZero, RInt(300), RInt(1000), RInt(5000) }

StrategyNames ==
  { KeyAvalanche, KeySnowball, KeyHybrid,
    <<"A", "v", "a", "l", "a", "n", "c", "h", "e">>,
    <<"S", "N", "O", "W", "B", "A", "L", "L">>,
    <<"H", "y", "B", "r", "i", "d">>,
    <<"c", "u", "s", "t", "o", "m">> }

StartDates == { "2024-01-01T00:00:00.000Z" }

(***************************************************************************)
(* The comparators handed to Array.prototype.sort, named by the class      *)
(* that uses them; the value is the number the comparator returns.         *)
(***************************************************************************)
\* faulty variant: the operands swapped
ByRateAscending(a, b) == RSub(a.interestRate, b.interestRate)

\* faulty variant: the operands swapped
ByBalanceDescending(a, b) == RSub(b.currentBalance, a.currentBalance)

ByRateDescending(a, b) == RSub(b.interestRate, a.interestRate)
ByBalanceAscending(a, b) == RSub(a.currentBalance, b.currentBalance)

Compare(order, a, b) ==
  IF order = "rateDescending" THEN ByRateDescending(a, b)
                              ELSE ByBalanceAscending(a, b)

(***************************************************************************)
(* Array.prototype.sort with a comparator: a stable sort (ECMAScript 2019) *)
(* computed as an insertion sort: an element moves in front of the ones    *)
(* the comparator puts strictly after it, never in front of an equal one.  *)
(***************************************************************************)
\* faulty variant: an element also moves in front of the ones equal to it
RECURSIVE InsertBeforeEqual(_, _, _)
InsertBeforeEqual(sorted, x, order) ==
  IF sorted = <<>> THEN <<x>>
  ELSE LET last == sorted[Len(sorted)]
       IN  IF RLe(RZero, Compare(order, last, x))
           THEN Append(InsertBeforeEqual(SubSeq(sorted, 1, Len(sorted) - 1), x, order),
                       last)
           ELSE Append(sorted, x)

RECURSIVE Insert(_, _, _)
Insert(sorted, x, order) ==
  IF sorted = <<>> THEN <<x>>
  ELSE LET last == sorted[Len(sorted)]
       IN  IF RPos(Compare(order, last, x))
           THEN Append(Insert(SubSeq(sorted, 1, Len(sorted) - 1), x, order), last)
           ELSE Append(sorted, x)

RECURSIVE SortFrom(_, _, _)
SortFrom(sorted, rest, order) ==
  IF rest = <<>> THEN sorted
  ELSE SortFrom(Insert(sorted, Head(rest), order), Tail(rest), order)

\* [...xs].sort(compare)
Sort(xs, order) == SortFrom(<<>>, xs, order)

(***************************************************************************)
(* The allocation loop body shared, line for line, by the four loops of    *)
(* the three strategies.                                                   *)
(***************************************************************************)
\* faulty variants of the clamp: one forgets the funds, one the balance
PaymentAmountIgnoringFunds(remainingFunds, account) == account.currentBalance
PaymentAmountIgnoringBalance(remainingFunds, account) == remainingFunds

\* Math.min(remainingFunds, account.currentBalance)
PaymentAmount(remainingFunds, account) ==
  MathMin(remainingFunds, account.currentBalance)

\* faulty variant: if (paymentAmount >= 0)
EmitsEntryFromZero(paymentAmount) == RLe(RZero, paymentAmount)

\* if (paymentAmount > 0)
EmitsEntry(paymentAmount) == RPos(paymentAmount)

\* faulty variant: priority: schedule.length
NewEntryFromZero(account, paymentAmount, startDate, schedule) ==
  [accountId |-> account.accountId,
   amount |-> paymentAmount,
   date |-> startDate,
   priority |-> Len(schedule)]

\* the entry pushed onto schedule
NewEntry(account, paymentAmount, startDate, schedule) ==
  [accountId |-> account.accountId,
   amount |-> paymentAmount,
   date |-> startDate,
   priority |-> Len(schedule) + 1]

(***************************************************************************)
(* AvalancheStrategy                                                       *)
(***************************************************************************)
\* faulty variant: the walk ends at the first account that gets no entry
RECURSIVE AvalancheLoopStoppingAtSkip(_, _, _, _)
AvalancheLoopStoppingAtSkip(accounts, remainingFunds, startDate, schedule) ==
  IF accounts = <<>> \/ RLe(remainingFunds, RZero) THEN schedule
  ELSE LET account == Head(accounts)
           paymentAmount == PaymentAmount(remainingFunds, account)
       IN  IF EmitsEntry(paymentAmount)
           THEN AvalancheLoopStoppingAtSkip(
                  Tail(accounts), RSub(remainingFunds, paymentAmount), startDate,
                  Append(schedule, NewEntry(account, paymentAmount, startDate, schedule)))
           ELSE schedule

\* faulty variant: remainingFunds -= paymentAmount left out
RECURSIVE AvalancheLoopKeepingFunds(_, _, _, _)
AvalancheLoopKeepingFunds(accounts, remainingFunds, startDate, schedule) ==
  IF accounts = <<>> \/ RLe(remainingFunds, RZero) THEN schedule
  ELSE LET account == Head(accounts)
           paymentAmount == PaymentAmount(remainingFunds, account)
       IN  IF EmitsEntry(paymentAmount)
           THEN AvalancheLoopKeepingFunds(
                  Tail(accounts), remainingFunds, startDate,
                  Append(schedule, NewEntry(account, paymentAmount, startDate, schedule)))
           ELSE AvalancheLoopKeepingFunds(Tail(accounts), remainingFunds, startDate,
                                          schedule)

RECURSIVE AvalancheLoop(_, _, _, _)
AvalancheLoop(accounts, remainingFunds, startDate, schedule) ==
  IF accounts = <<>> \/ RLe(remainingFunds, RZero) THEN schedule
  ELSE LET account == Head(accounts)
           paymentAmount == PaymentAmount(remainingFunds, account)
       IN  IF EmitsEntry(paymentAmount)
           THEN AvalancheLoop(Tail(accounts), RSub(remainingFunds, paymentAmount),
                              startDate,
                              Append(schedule,
                                     NewEntry(account, paymentAmount, startDate, schedule)))
           ELSE AvalancheLoop(Tail(accounts), remainingFunds, startDate, schedule)

\* faulty variant: let remainingFunds = availableFunds || 100
AvalancheGenerateScheduleDefaultFunds(accounts, availableFunds, startDate) ==
  AvalancheLoop(accounts,
                IF availableFunds = RZero THEN RInt(100) ELSE availableFunds,
                startDate, <<>>)

AvalancheGenerateSchedule(accounts, availableFunds, startDate) ==
  AvalancheLoop(accounts, availableFunds, startDate, <<>>)

\* faulty variant: accounts.sort(...) without the spread sorts the caller's array
AvalancheArraysInPlace(accounts) ==
  [input |-> Sort(accounts, "rateDescending"),
   sortedAccounts |-> Sort(accounts, "rateDescending")]

\* [...accounts].sort(...): sort works in place, on the copy the spread made;
\* input is the caller's array after the statement
AvalancheArrays(accounts) ==
  [input |-> accounts,
   sortedAccounts |-> Sort(accounts, "rateDescending")]

AvalancheCalculatePayments(accounts, availableFunds, startDate) ==
  LET sortedAccounts == AvalancheArrays(accounts).sortedAccounts
  IN  AvalancheGenerateSchedule(sortedAccounts, availableFunds, startDate)

(***************************************************************************)
(* SnowballStrategy                                                        *)
(***************************************************************************)
RECURSIVE SnowballLoop(_, _, _, _)
SnowballLoop(accounts, remainingFunds, startDate, schedule) ==
  IF accounts = <<>> \/ RLe(remainingFunds, RZero) THEN schedule
  ELSE LET account == Head(accounts)
           paymentAmount == PaymentAmount(remainingFunds, account)
       IN  IF EmitsEntry(paymentAmount)
           THEN SnowballLoop(Tail(accounts), RSub(remainingFunds, paymentAmount),
                             startDate,
                             Append(schedule,
                                    NewEntry(account, paymentAmount, startDate, schedule)))
           ELSE SnowballLoop(Tail(accounts), remainingFunds, startDate, schedule)

SnowballGenerateSchedule(accounts, availableFunds, startDate) ==
  SnowballLoop(accounts, availableFunds, startDate, <<>>)

\* [...accounts].sort(...), as in AvalancheArrays
SnowballArrays(accounts) ==
  [input |-> accounts,
   sortedAccounts |-> Sort(accounts, "balanceAscending")]

SnowballCalculatePayments(accounts, availableFunds, startDate) ==
  LET sortedAccounts == SnowballArrays(accounts).sortedAccounts
  IN  SnowballGenerateSchedule(sortedAccounts, availableFunds, startDate)

(***************************************************************************)
(* HybridStrategy                                                          *)
(***************************************************************************)
highInterestThreshold == Pct(15)
lowBalanceThreshold == 1000

HighInterestShare == Rat(7, 10)
LowBalanceShare == Rat(3, 10)

highInterestAccountsOf(accounts) ==
  Sort(SelectSeq(accounts, LAMBDA account : RLe(highInterestThreshold, account.interestRate)),
       "rateDescending")

lowBalanceAccountsOf(accounts) ==
  Sort(SelectSeq(accounts,
                 LAMBDA account : RLe(account.currentBalance, RInt(lowBalanceThreshold))),
       "balanceAscending")

\* faulty variant: the second loop is handed the whole of the funds
lowBalanceFundsWhole(availableFunds) == availableFunds

highInterestFundsOf(availableFunds) == RMul(availableFunds, HighInterestShare)
lowBalanceFundsOf(availableFunds) == RMul(availableFunds, LowBalanceShare)

\* "Process high-interest accounts first"
RECURSIVE HighInterestLoop(_, _, _, _)
HighInterestLoop(accounts, remainingHighInterestFunds, startDate, schedule) ==
  IF accounts = <<>> \/ RLe(remainingHighInterestFunds, RZero) THEN schedule
  ELSE LET account == Head(accounts)
           paymentAmount == PaymentAmount(remainingHighInterestFunds, account)
       IN  IF EmitsEntry(paymentAmount)
           THEN HighInterestLoop(Tail(accounts),
                                 RSub(remainingHighInterestFunds, paymentAmount),
                                 startDate,
                                 Append(schedule,
                                        NewEntry(account, paymentAmount, startDate, schedule)))
           ELSE HighInterestLoop(Tail(accounts), remainingHighInterestFunds,
                                 startDate, schedule)

\* faulty variant: the second loop passes over an account the first loop paid
RECURSIVE LowBalanceLoopDeduped(_, _, _, _)
LowBalanceLoopDeduped(accounts, remainingLowBalanceFunds, startDate, schedule) ==
  IF accounts = <<>> \/ RLe(remainingLowBalanceFunds, RZero) THEN schedule
  ELSE LET account == Head(accounts)
           paymentAmount == PaymentAmount(remainingLowBalanceFunds, account)
           paid == \E k \in 1..Len(schedule) : schedule[k].accountId = account.accountId
       IN  IF EmitsEntry(paymentAmount) /\ ~paid
           THEN LowBalanceLoopDeduped(Tail(accounts),
                                      RSub(remainingLowBalanceFunds, paymentAmount),
                                      startDate,
                                      Append(schedule,
                                             NewEntry(account, paymentAmount, startDate,
                                                      schedule)))
           ELSE LowBalanceLoopDeduped(Tail(accounts), remainingLowBalanceFunds,
                                      startDate, schedule)

\* "Process low-balance accounts": pushes onto the same schedule
RECURSIVE LowBalanceLoop(_, _, _, _)
LowBalanceLoop(accounts, remainingLowBalanceFunds, startDate, schedule) ==
  IF accounts = <<>> \/ RLe(remainingLowBalanceFunds, RZero) THEN schedule
  ELSE LET account == Head(accounts)
           paymentAmount == PaymentAmount(remainingLowBalanceFunds, account)
       IN  IF EmitsEntry(paymentAmount)
           THEN LowBalanceLoop(Tail(accounts),
                               RSub(remainingLowBalanceFunds, paymentAmount),
                               startDate,
                               Append(schedule,
                                      NewEntry(account, paymentAmount, startDate, schedule)))
           ELSE LowBalanceLoop(Tail(accounts), remainingLowBalanceFunds,
                               startDate, schedule)

\* accounts.filter(...).sort(...): filter returns a new array, sorted in place
HybridArrays(accounts) ==
  [input |-> accounts,
   highInterestAccounts |-> highInterestAccountsOf(accounts),
   lowBalanceAccounts |-> lowBalanceAccountsOf(accounts)]

HybridCalculatePayments(accounts, availableFunds, startDate) ==
  LET highInterestAccounts == HybridArrays(accounts).highInterestAccounts
      lowBalanceAccounts == HybridArrays(accounts).lowBalanceAccounts
      afterHighInterest ==
        HighInterestLoop(highInterestAccounts, highInterestFundsOf(availableFunds),
                         startDate, <<>>)
  IN  LowBalanceLoop(lowBalanceAccounts, lowBalanceFundsOf(availableFunds),
                     startDate, afterHighInterest)

(***************************************************************************)
(* OptimizationEngine                                                      *)
(***************************************************************************)
\* the Map built by the constructor
NewStrategies ==
  [key \in {KeyAvalanche, KeySnowball, KeyHybrid} |->
     IF key = KeyAvalanche THEN "AvalancheStrategy"
     ELSE IF key = KeySnowball THEN "SnowballStrategy"
     ELSE "HybridStrategy"]

\* Map.prototype.get
MapGet(map, key) == IF key \in DOMAIN map THEN map[key] ELSE "undefined"

\* strategy.calculatePayments(...), dispatched on the class of strategy
CalculatePayments(strategy, accounts, availableFunds, startDate) ==
  IF strategy = "AvalancheStrategy"
    THEN AvalancheCalculatePayments(accounts, availableFunds, startDate)
  ELSE IF strategy = "SnowballStrategy"
    THEN SnowballCalculatePayments(accounts, availableFunds, startDate)
  ELSE HybridCalculatePayments(accounts, availableFunds, startDate)

\* the order of the entries of new Map([...])
RegistrationOrder == <<KeyAvalanche, KeySnowball, KeyHybrid>>

\* Array.from(this.strategies.values())
StrategyValues(map) == [i \in 1..Len(RegistrationOrder) |-> map[RegistrationOrder[i]]]

\* the Map after values(): reading does not write
StrategiesAfterValues(map) == map

\* faulty variant: a name that is not registered is registered on the way out
StrategiesAfterGetRegistering(map, strategyName) ==
  IF ToLowerCase(strategyName) \in DOMAIN map THEN map
  ELSE [key \in DOMAIN map \cup {ToLowerCase(strategyName)} |->
          IF key \in DOMAIN map THEN map[key] ELSE "AvalancheStrategy"]

\* the Map after get(): reading does not write
StrategiesAfterGet(map, strategyName) == map

\* faulty variant: this.strategies.get(strategyName), the name as given
LookupStrategyExactCase(map, strategyName) == MapGet(map, strategyName)

\* faulty variant: this.strategies.get(...) || new AvalancheStrategy()
LookupStrategyWithDefault(map, strategyName) ==
  IF ToLowerCase(strategyName) \in DOMAIN map
  THEN map[ToLowerCase(strategyName)]
  ELSE "AvalancheStrategy"

\* the caller's accounts array after strategy.calculatePayments(...)
AccountsAfterCalculatePayments(strategy, accounts) ==
  IF strategy = "AvalancheStrategy" THEN AvalancheArrays(accounts).input
  ELSE IF strategy = "SnowballStrategy" THEN SnowballArrays(accounts).input
  ELSE HybridArrays(accounts).input

\* this.strategies.get(strategyName.toLowerCase())
LookupStrategy(map, strategyName) == MapGet(map, ToLowerCase(strategyName))

(***************************************************************************)
(* calculateProjectedSavings: the pieces of the month-by-month simulation  *)
(***************************************************************************)
\* accounts.map(account => ({...account, remainingBalance: account.currentBalance}))
CopyAccounts(accts) ==
  [i \in 1..Len(accts) |->
     [accountId |-> accts[i].accountId,
      currentBalance |-> accts[i].currentBalance,
      interestRate |-> accts[i].interestRate,
      minimumPayment |-> accts[i].minimumPayment,
      remainingBalance |-> accts[i].currentBalance]]

\* the caller's accounts after the map: the spread builds new objects and map
\* a new array, the input objects get no remainingBalance
AccountsAfterCopy(accts) == accts

\* simulatedAccounts.some(account => account.remainingBalance > 0)
SomeRemaining(sim) == \E i \in 1..Len(sim) : RPos(sim[i].remainingBalance)

\* faulty variant: the annual rate charged every month
MonthlyInterestAnnual(balance, interestRate) == RMul(balance, interestRate)

\* account.remainingBalance * (account.interestRate / 12)
MonthlyInterestOf(balance, interestRate) ==
  RMul(balance, RDiv(interestRate, RInt(12)))

\* "Apply monthly interest"
ApplyMonthlyInterest(sim) ==
  [i \in 1..Len(sim) |->
     IF RPos(sim[i].remainingBalance)
     THEN [sim[i] EXCEPT !.remainingBalance =
             RAdd(@, MonthlyInterestOf(@, sim[i].interestRate))]
     ELSE sim[i]]

\* simulatedAccounts.find(acc => acc.accountId === accountId): index, 0 if none
FindAccount(sim, accountId) ==
  IF \E i \in 1..Len(sim) : sim[i].accountId = accountId
  THEN CHOOSE i \in 1..Len(sim) :
         /\ sim[i].accountId = accountId
         /\ \A j \in 1..(i - 1) : sim[j].accountId # accountId
  ELSE 0

\* faulty variant: the payment not clamped to the balance
SimulatedPaymentUnclamped(payment, account) == payment.amount

\* Math.min(payment.amount, account.remainingBalance)
SimulatedPayment(payment, account) ==
  MathMin(payment.amount, account.remainingBalance)

\* faulty variant: totalPayments += payment.amount, the amount before the clamp
RECURSIVE ApplyScheduledPaymentsCountingAmount(_, _)
ApplyScheduledPaymentsCountingAmount(schedule, st) ==
  IF schedule = <<>> THEN st
  ELSE LET payment == Head(schedule)
           k == FindAccount(st.sim, payment.accountId)
       IN  IF k # 0 /\ RPos(st.sim[k].remainingBalance)
           THEN LET paymentAmount == SimulatedPayment(payment, st.sim[k])
                IN  ApplyScheduledPaymentsCountingAmount(
                      Tail(schedule),
                      [sim |-> [st.sim EXCEPT ![k].remainingBalance =
                                  RSub(@, paymentAmount)],
                       totalPayments |-> RAdd(st.totalPayments, payment.amount)])
           ELSE ApplyScheduledPaymentsCountingAmount(Tail(schedule), st)

\* "Apply scheduled payments": st = [sim, totalPayments]
RECURSIVE ApplyScheduledPayments(_, _)
ApplyScheduledPayments(schedule, st) ==
  IF schedule = <<>> THEN st
  ELSE LET payment == Head(schedule)
           k == FindAccount(st.sim, payment.accountId)
       IN  IF k # 0 /\ RPos(st.sim[k].remainingBalance)
           THEN LET paymentAmount == SimulatedPayment(payment, st.sim[k])
                IN  ApplyScheduledPayments(
                      Tail(schedule),
                      [sim |-> [st.sim EXCEPT ![k].remainingBalance =
                                  RSub(@, paymentAmount)],
                       totalPayments |-> RAdd(st.totalPayments, paymentAmount)])
           ELSE ApplyScheduledPayments(Tail(schedule), st)

\* faulty variant: the payments applied before the month's interest
LoopBodyPaymentsFirst(schedule, sim, total) ==
  LET st == ApplyScheduledPayments(schedule, [sim |-> sim, totalPayments |-> total])
  IN  [sim |-> ApplyMonthlyInterest(st.sim), totalPayments |-> st.totalPayments]

\* the body of the while loop after monthsToPayoff++: interest, then payments
LoopBody(schedule, sim, total) ==
  ApplyScheduledPayments(schedule,
                         [sim |-> ApplyMonthlyInterest(sim), totalPayments |-> total])

\* faulty variant: Math.ceil left out
BaselineTermUnrounded(account) ==
  LET monthlyPayment == account.minimumPayment
      monthlyInterest == MonthlyInterestOf(account.currentBalance, account.interestRate)
  IN  XMul(monthlyPayment,
           XDiv(account.currentBalance, RSub(monthlyPayment, monthlyInterest)))

\* one term of the reduce: monthlyPayment * Math.ceil(balance / (payment - interest))
BaselineTerm(account) ==
  LET monthlyPayment == account.minimumPayment
      monthlyInterest == MonthlyInterestOf(account.currentBalance, account.interestRate)
      months == XCeil(XDiv(account.currentBalance,
                           RSub(monthlyPayment, monthlyInterest)))
  IN  XMul(monthlyPayment, months)

\* accounts.reduce((sum, account) => sum + ..., 0)
RECURSIVE OriginalTotalFrom(_, _)
OriginalTotalFrom(sum, accts) ==
  IF accts = <<>> THEN sum
  ELSE OriginalTotalFrom(XAdd(sum, BaselineTerm(Head(accts))), Tail(accts))

OriginalTotal(accts) == OriginalTotalFrom(Fin(RZero), accts)

(***************************************************************************)
(* State: one engine, and one caller that calls optimizePayments and then  *)
(* calculateProjectedSavings on the schedule it got, as processRoundup     *)
(* does.                                                                   *)
(***************************************************************************)
VARIABLES
  strategies,          \* OptimizationEngine.strategies
  strategyName,        \* arguments of optimizePayments
  accounts,
  availableFunds,
  startDate,
  pc,                  \* "ready", "optimized", "threw", "simulating", "returned"
  paymentSchedule,     \* value returned by optimizePayments
  thrown,              \* message of the Error thrown, "" if none
  simulatedAccounts,   \* locals of calculateProjectedSavings
  monthsToPayoff,
  totalPayments,
  totalInterestSaved,
  availableStrategies, \* value returned by getAvailableStrategies, <<>> before
  roundupPc,           \* position of MicroRepayService.processRoundup:
                       \* "idle", "profile", "balances", "engine", "paying",
                       \* "calling", "resolved", "rejected"
  paymentIndex,        \* position of the for loop over paymentSchedule
  attempted,           \* schedule positions handed to makePayment, in call order
  ledger,              \* payments the creditors have processed
  roundupError,        \* message of the Error processRoundup rejects with
  retryPc,             \* position of executeWithRetry: "idle", "attempting",
                       \* "waiting", "returned", "threw"
  retryCount,          \* parameter of the running executeWithRetry frame
  fnOutcomes,          \* outcome of every call of fn, in call order
  delays,              \* delay of every setTimeout, in call order
  retryResult          \* value returned or error thrown by executeWithRetry

\* state of the service around the engine
serviceVars == <<roundupPc, paymentIndex, attempted, ledger, roundupError,
                 retryPc, retryCount, fnOutcomes, delays, retryResult>>

vars == <<strategies, strategyName, accounts, availableFunds, startDate, pc,
          paymentSchedule, thrown, simulatedAccounts, monthsToPayoff,
          totalPayments, totalInterestSaved, availableStrategies,
          roundupPc, paymentIndex, attempted, ledger, roundupError,
          retryPc, retryCount, fnOutcomes, delays, retryResult>>

\* no processRoundup and no executeWithRetry is running
ServiceIdle ==
  /\ roundupPc = "idle"
  /\ paymentIndex = 0
  /\ attempted = <<>>
  /\ ledger = <<>>
  /\ roundupError = ""
  /\ retryPc = "idle"
  /\ retryCount = 0
  /\ fnOutcomes = <<>>
  /\ delays = <<>>
  /\ retryResult = "none"

inputs == <<strategies, strategyName, accounts, availableFunds, startDate>>

Init ==
  /\ strategies = NewStrategies
  /\ strategyName \in StrategyNames
  /\ accounts \in AccountLists
  /\ availableFunds \in FundsValues
  /\ startDate \in StartDates
  /\ pc = "ready"
  /\ paymentSchedule = <<>>
  /\ thrown = ""
  /\ simulatedAccounts = <<>>
  /\ monthsToPayoff = 0
  /\ totalPayments = RZero
  /\ totalInterestSaved = Fin(RZero)
  /\ availableStrategies = <<>>
  /\ ServiceIdle

\* OptimizationEngine.getAvailableStrategies, between the caller's other calls
GetAvailableStrategies ==
  /\ pc # "simulating"
  /\ availableStrategies' = StrategyValues(strategies)
  /\ strategies' = StrategiesAfterValues(strategies)
  /\ UNCHANGED <<strategyName, accounts, availableFunds, startDate, pc,
                 paymentSchedule, thrown, simulatedAccounts, monthsToPayoff,
                 totalPayments, totalInterestSaved>>
  /\ UNCHANGED serviceVars

\* OptimizationEngine.optimizePayments
OptimizePayments ==
  /\ pc = "ready"
  /\ LET strategy == LookupStrategy(strategies, strategyName)
     IN  IF strategy = "undefined"
         THEN /\ thrown' = "Unknown optimization strategy"
              /\ pc' = "threw"
              /\ UNCHANGED <<paymentSchedule, accounts>>
         ELSE /\ paymentSchedule' =
                   CalculatePayments(strategy, accounts, availableFunds, startDate)
              /\ accounts' = AccountsAfterCalculatePayments(strategy, accounts)
              /\ pc' = "optimized"
              /\ UNCHANGED thrown
  /\ strategies' = StrategiesAfterGet(strategies, strategyName)
  /\ UNCHANGED <<strategyName, availableFunds, startDate,
                 simulatedAccounts, monthsToPayoff, totalPayments,
                 totalInterestSaved>>
  /\ UNCHANGED availableStrategies
  /\ UNCHANGED serviceVars

\* calculateProjectedSavings, up to the first test of the while loop
BeginProjection ==
  /\ pc = "optimized"
  /\ simulatedAccounts' = CopyAccounts(accounts)
  /\ accounts' = AccountsAfterCopy(accounts)
  /\ monthsToPayoff' = 0
  /\ totalPayments' = RZero
  /\ totalInterestSaved' = Fin(RZero)
  /\ pc' = "simulating"
  /\ UNCHANGED <<strategies, strategyName, availableFunds, startDate,
                 paymentSchedule, thrown>>
  /\ UNCHANGED availableStrategies
  /\ UNCHANGED serviceVars

\* one iteration of the while loop
SimulateMonth ==
  /\ pc = "simulating"
  /\ SomeRemaining(simulatedAccounts)
  /\ monthsToPayoff < MaxMonths
  /\ LET st == LoopBody(paymentSchedule, simulatedAccounts, totalPayments)
     IN  /\ simulatedAccounts' = st.sim
         /\ totalPayments' = st.totalPayments
  /\ monthsToPayoff' = monthsToPayoff + 1
  /\ UNCHANGED <<inputs, pc, paymentSchedule, thrown, totalInterestSaved>>
  /\ UNCHANGED availableStrategies
  /\ UNCHANGED serviceVars

\* the loop condition is false: baseline, subtraction, return
ReturnProjection ==
  /\ pc = "simulating"
  /\ ~SomeRemaining(simulatedAccounts)
  /\ totalInterestSaved' = XSub(OriginalTotal(accounts), totalPayments)
  /\ pc' = "returned"
  /\ UNCHANGED <<inputs, paymentSchedule, thrown, simulatedAccounts,
                 monthsToPayoff, totalPayments>>
  /\ UNCHANGED availableStrategies
  /\ UNCHANGED serviceVars

Next ==
  \/ GetAvailableStrategies
  \/ OptimizePayments
  \/ BeginProjection
  \/ SimulateMonth
  \/ ReturnProjection

Spec == Init /\ [][Next]_vars

\* A call that has started keeps running: the while loop takes its next
\* iteration, and the code after the loop runs once the loop has ended.
\* the steps of SimulateMonth and of ReturnProjection, told by what they do to
\* monthsToPayoff and pc: enabled exactly when those actions are
MonthRuns ==
  /\ pc = "simulating"
  /\ SomeRemaining(simulatedAccounts)
  /\ monthsToPayoff < MaxMonths
  /\ monthsToPayoff' = monthsToPayoff + 1

CallReturns ==
  /\ pc = "simulating"
  /\ ~SomeRemaining(simulatedAccounts)
  /\ pc' = "returned"

FairSpec == Spec /\ WF_monthsToPayoff(MonthRuns) /\ WF_pc(CallReturns)

(***************************************************************************)
(* Vocabulary of the properties                                            *)
(***************************************************************************)
\* optimizePayments has returned paymentSchedule
ScheduleReturned == pc \in {"optimized", "simulating", "returned"}

Registered(name) == ToLowerCase(name) \in {KeyAvalanche, KeySnowball, KeyHybrid}
Uses(key) == ToLowerCase(strategyName) = key

RECURSIVE SumAmounts(_)
SumAmounts(schedule) ==
  IF schedule = <<>> THEN RZero
  ELSE RAdd(Head(schedule).amount, SumAmounts(Tail(schedule)))

RECURSIVE SumBalances(_)
SumBalances(accts) ==
  IF accts = <<>> THEN RZero
  ELSE RAdd(Head(accts).currentBalance, SumBalances(Tail(accts)))

\* the input account a schedule entry targets
Target(entry) ==
  accounts[CHOOSE i \in 1..Len(accounts) : accounts[i].accountId = entry.accountId]

\* one minor unit (a cent) of the currency the balances are given in
MinorUnit == Rat(1, 100)

NoNegativeBalance == \A i \in 1..Len(accounts) : RLe(RZero, accounts[i].currentBalance)

(***************************************************************************)
(* C1: for each strategy, a non-empty list of accounts and available funds *)
(* above zero, the amounts of the returned schedule add up to at most the  *)
(* available funds, within one minor unit.                                 *)
(***************************************************************************)
C1_TotalWithinFunds ==
  (ScheduleReturned /\ accounts # <<>> /\ RPos(availableFunds))
    => RLe(SumAmounts(paymentSchedule), RAdd(availableFunds, MinorUnit))

\* the hybrid strategy spends both of its budgets in full
C1_Witness ==
  /\ ScheduleReturned
  /\ Uses(KeyHybrid)
  /\ RPos(availableFunds)
  /\ Len(paymentSchedule) >= 2
  /\ SumAmounts(paymentSchedule) = availableFunds

(***************************************************************************)
(* C2: for each strategy, a non-empty list of accounts (balances not       *)
(* negative, as the data model has them) and available funds above zero,   *)
(* the amounts of the returned schedule add up to at most the sum of the   *)
(* accounts' current balances.                                             *)
(***************************************************************************)
C2_TotalWithinBalances ==
  (ScheduleReturned /\ accounts # <<>> /\ RPos(availableFunds) /\ NoNegativeBalance)
    => RLe(SumAmounts(paymentSchedule), SumBalances(accounts))

(***************************************************************************)
(* C3: each entry of a returned schedule has an amount above zero and at   *)
(* most the current balance of the account it targets.                     *)
(***************************************************************************)
C3_EntryWithinBalance ==
  ScheduleReturned =>
    \A k \in 1..Len(paymentSchedule) :
      /\ RPos(paymentSchedule[k].amount)
      /\ RLe(paymentSchedule[k].amount, Target(paymentSchedule[k]).currentBalance)

\* a schedule with a full payment followed by a partial one
C3_Witness ==
  /\ ScheduleReturned
  /\ Len(paymentSchedule) >= 2
  /\ paymentSchedule[1].amount = Target(paymentSchedule[1]).currentBalance
  /\ RLt(paymentSchedule[2].amount, Target(paymentSchedule[2]).currentBalance)

(***************************************************************************)
(* C4: no entry of a returned schedule targets an account whose current    *)
(* balance is zero or negative.                                            *)
(***************************************************************************)
C4_NoEntryForPaidAccount ==
  ScheduleReturned =>
    \A k \in 1..Len(paymentSchedule) :
      RPos(Target(paymentSchedule[k]).currentBalance)

\* avalanche walks over an account with a negative balance, sorted first by
\* its rate, and then pays the next one
C4_Witness ==
  /\ ScheduleReturned
  /\ Uses(KeyAvalanche)
  /\ Len(accounts) = 2
  /\ RLt(accounts[1].currentBalance, RZero)
  /\ RLt(accounts[2].interestRate, accounts[1].interestRate)
  /\ Len(paymentSchedule) = 1
  /\ paymentSchedule[1].accountId = accounts[2].accountId

(***************************************************************************)
(* C5: negative available funds, or a negative current balance on an       *)
(* input account, make optimizePayments (called with a registered          *)
(* strategy name) fail with an InvalidInput error; no schedule is          *)
(* returned.                                                               *)
(***************************************************************************)
C5_InvalidInputRejected ==
  (/\ pc # "ready"
   /\ Registered(strategyName)
   /\ (RLt(availableFunds, RZero) \/ ~NoNegativeBalance))
    => (pc = "threw" /\ thrown = "InvalidInput")

(***************************************************************************)
(* C6: when some input account with a balance above zero has a minimum     *)
(* payment (above zero) that is not above its monthly interest,            *)
(* balance * rate / 12, calculateProjectedSavings raises                   *)
(* NonAmortizingMinimumPayment: it does not return a result.               *)
(***************************************************************************)
NonAmortizing(account) ==
  /\ RPos(account.currentBalance)
  /\ RPos(account.minimumPayment)
  /\ RLe(account.minimumPayment,
         RMul(account.currentBalance, RDiv(account.interestRate, RInt(12))))

C6_NonAmortizingRejected ==
  (\E i \in 1..Len(accounts) : NonAmortizing(accounts[i])) => pc # "returned"

(***************************************************************************)
(* C7: calculateProjectedSavings terminates on every input, its loop being *)
(* cut off by an iteration cap that raises PayoffHorizonExceeded.  A loop  *)
(* that terminates never stands, its condition true, at a point where one  *)
(* more iteration raises nothing and leaves every balance as it is: on     *)
(* funds above zero and balances not negative, the projection is never in  *)
(* such a state.                                                           *)
(***************************************************************************)
C7_ProjectionTerminates ==
  ~(/\ pc = "simulating"
    /\ RPos(availableFunds)
    /\ NoNegativeBalance
    /\ monthsToPayoff > 0
    /\ SomeRemaining(simulatedAccounts)
    /\ LoopBody(paymentSchedule, simulatedAccounts, totalPayments).sim
         = simulatedAccounts)

(***************************************************************************)
(* C8: optimizePayments with a strategy name that, put in lower case, is   *)
(* none of avalanche, snowball and hybrid throws the unknown-strategy      *)
(* error; it returns no schedule.                                          *)
(***************************************************************************)
C8_UnknownStrategyThrows ==
  (pc # "ready" /\ ~Registered(strategyName))
    => (/\ pc = "threw"
        /\ thrown = "Unknown optimization strategy"
        /\ paymentSchedule = <<>>)

\* the call with the name custom has thrown
C8_Witness ==
  /\ pc = "threw"
  /\ strategyName = <<"c", "u", "s", "t", "o", "m">>
  /\ accounts # <<>>
  /\ RPos(availableFunds)

(***************************************************************************)
(* C9: for each strategy, available funds of zero give an empty schedule,  *)
(* and an empty list of accounts gives an empty schedule whatever the      *)
(* available funds.                                                        *)
(***************************************************************************)
C9_EmptySchedule ==
  (ScheduleReturned /\ (availableFunds = RZero \/ accounts = <<>>))
    => paymentSchedule = <<>>

\* zero funds against an account that has a balance to pay
C9_Witness ==
  /\ ScheduleReturned
  /\ availableFunds = RZero
  /\ \E i \in 1..Len(accounts) : RPos(accounts[i].currentBalance)
  /\ paymentSchedule = <<>>

(***************************************************************************)
(* C10: avalanche: the first entry of a non-empty schedule targets an      *)
(* account whose interest rate is the highest among the input accounts     *)
(* with a balance above zero.                                              *)
(***************************************************************************)
C10_AvalancheFirstIsHighestRate ==
  (ScheduleReturned /\ Uses(KeyAvalanche) /\ paymentSchedule # <<>>)
    => \A i \in 1..Len(accounts) :
         RPos(accounts[i].currentBalance)
           => RLe(accounts[i].interestRate, Target(paymentSchedule[1]).interestRate)

\* the second input account has the higher rate and is paid first
C10_Witness ==
  /\ ScheduleReturned
  /\ Uses(KeyAvalanche)
  /\ Len(accounts) = 2
  /\ RPos(accounts[1].currentBalance)
  /\ RPos(accounts[2].currentBalance)
  /\ RLt(accounts[1].interestRate, accounts[2].interestRate)
  /\ paymentSchedule # <<>>
  /\ paymentSchedule[1].accountId = accounts[2].accountId

(***************************************************************************)
(* C11: snowball: the first entry of a non-empty schedule targets an       *)
(* account whose current balance is the lowest among the input accounts    *)
(* with a balance above zero.                                              *)
(***************************************************************************)
C11_SnowballFirstIsLowestBalance ==
  (ScheduleReturned /\ Uses(KeySnowball) /\ paymentSchedule # <<>>)
    => \A i \in 1..Len(accounts) :
         RPos(accounts[i].currentBalance)
           => RLe(Target(paymentSchedule[1]).currentBalance, accounts[i].currentBalance)

\* the second input account has the lower balance and is paid first
C11_Witness ==
  /\ ScheduleReturned
  /\ Uses(KeySnowball)
  /\ Len(accounts) = 2
  /\ RPos(accounts[2].currentBalance)
  /\ RLt(accounts[2].currentBalance, accounts[1].currentBalance)
  /\ paymentSchedule # <<>>
  /\ paymentSchedule[1].accountId = accounts[2].accountId

(***************************************************************************)
(* C12: hybrid, available funds not negative: the schedule is a run of     *)
(* entries for high-interest accounts (rate >= 0.15) that add up to at     *)
(* most 70% of the available funds, followed by a run of entries for       *)
(* low-balance accounts (balance <= 1000) that add up to at most 30% of    *)
(* them: what one run leaves unspent is not spent by the other.            *)
(***************************************************************************)
IsHighInterest(account) == RLe(Rat(15, 100), account.interestRate)
IsLowBalance(account) == RLe(account.currentBalance, RInt(1000))

C12_HybridBudgetsApart ==
  (ScheduleReturned /\ Uses(KeyHybrid) /\ RLe(RZero, availableFunds))
    => \E k \in 0..Len(paymentSchedule) :
         /\ \A j \in 1..k : IsHighInterest(Target(paymentSchedule[j]))
         /\ \A j \in (k + 1)..Len(paymentSchedule) :
              IsLowBalance(Target(paymentSchedule[j]))
         /\ RLe(SumAmounts(SubSeq(paymentSchedule, 1, k)),
                RMul(Rat(70, 100), availableFunds))
         /\ RLe(SumAmounts(SubSeq(paymentSchedule, k + 1, Len(paymentSchedule))),
                RMul(Rat(30, 100), availableFunds))

\* the high-interest run spends its 70% and leaves its account short, while
\* the low-balance run finds nothing to pay and its 30% stays unspent
C12_Witness ==
  /\ ScheduleReturned
  /\ Uses(KeyHybrid)
  /\ RPos(availableFunds)
  /\ Len(accounts) = 2
  /\ Len(paymentSchedule) = 1
  /\ IsHighInterest(Target(paymentSchedule[1]))
  /\ paymentSchedule[1].amount = RMul(Rat(70, 100), availableFunds)
  /\ RLt(paymentSchedule[1].amount, Target(paymentSchedule[1]).currentBalance)

(***************************************************************************)
(* C13: hybrid does not dedupe by account: with funds above zero, an       *)
(* account with a balance above zero that is in both groups (rate >= 0.15  *)
(* and balance <= 1000) and comes first in both (every other account with  *)
(* a balance has a lower rate if high-interest, a higher balance if        *)
(* low-balance) gets two entries in one call, one from each run.           *)
(***************************************************************************)
EntriesFor(account) ==
  { k \in 1..Len(paymentSchedule) : paymentSchedule[k].accountId = account.accountId }

FirstInBothGroups(i) ==
  /\ IsHighInterest(accounts[i])
  /\ IsLowBalance(accounts[i])
  /\ RPos(accounts[i].currentBalance)
  /\ \A j \in (1..Len(accounts)) \ {i} :
       RPos(accounts[j].currentBalance) =>
         /\ IsHighInterest(accounts[j])
              => RLt(accounts[j].interestRate, accounts[i].interestRate)
         /\ IsLowBalance(accounts[j])
              => RLt(accounts[i].currentBalance, accounts[j].currentBalance)

C13_HybridPaysTwice ==
  (ScheduleReturned /\ Uses(KeyHybrid) /\ RPos(availableFunds))
    => \A i \in 1..Len(accounts) :
         FirstInBothGroups(i) =>
           \E k1, k2 \in EntriesFor(accounts[i]) :
             /\ k1 < k2
             /\ EntriesFor(accounts[i]) = {k1, k2}
             /\ paymentSchedule[k1].amount =
                  MathMin(RMul(Rat(70, 100), availableFunds), accounts[i].currentBalance)
             /\ paymentSchedule[k2].amount =
                  MathMin(RMul(Rat(30, 100), availableFunds), accounts[i].currentBalance)

\* two accounts, the one in both groups is paid twice and the other once
C13_Witness ==
  /\ ScheduleReturned
  /\ Uses(KeyHybrid)
  /\ Len(accounts) = 2
  /\ FirstInBothGroups(1)
  /\ Cardinality(EntriesFor(accounts[1])) = 2
  /\ Cardinality(EntriesFor(accounts[2])) = 1

(***************************************************************************)
(* C14: the result of calculateProjectedSavings has                        *)
(* totalInterestSaved = baseline - totalPayments, the baseline being the   *)
(* sum over the accounts of                                                *)
(* minimumPayment * ceil(balance / (minimumPayment - balance * rate / 12)) *)
(* (stated where no account makes the divisor zero).                       *)
(***************************************************************************)
Divisor(account) ==
  RSub(account.minimumPayment,
       RMul(account.currentBalance, RMul(account.interestRate, Rat(1, 12))))

RECURSIVE BaselineTotal(_)
BaselineTotal(accts) ==
  IF accts = <<>> THEN RZero
  ELSE RAdd(RMul(Head(accts).minimumPayment,
                 RInt(RCeil(RDiv(Head(accts).currentBalance, Divisor(Head(accts)))))),
            BaselineTotal(Tail(accts)))

C14_InterestSaved ==
  (pc = "returned" /\ \A i \in 1..Len(accounts) : Divisor(accounts[i]) # RZero)
    => totalInterestSaved = Fin(RSub(BaselineTotal(accounts), totalPayments))

\* a result for an account whose baseline months are rounded up
C14_Witness ==
  /\ pc = "returned"
  /\ Len(accounts) = 2
  /\ \A i \in 1..2 :
       /\ RPos(Divisor(accounts[i]))
       /\ RPos(accounts[i].currentBalance)
  /\ RDiv(accounts[1].currentBalance, Divisor(accounts[1])).d # 1
  /\ monthsToPayoff = 2
  /\ totalInterestSaved.kind = "finite"
  /\ RPos(totalInterestSaved.val)

(***************************************************************************)
(* C16: optimizePayments and calculateProjectedSavings do not mutate what  *)
(* they are given: no step of a call changes the order of the caller's     *)
(* accounts or a field of one of them, and once a schedule is returned no  *)
(* step of the projection changes it.                                      *)
(***************************************************************************)
C16_InputsNotMutated ==
  [][/\ accounts' = accounts
     /\ ScheduleReturned => paymentSchedule' = paymentSchedule]_vars

\* a finished projection on accounts that neither sort order leaves in place
C16_Witness ==
  /\ pc = "returned"
  /\ monthsToPayoff >= 1
  /\ Len(accounts) = 2
  /\ Sort(accounts, "rateDescending") # accounts
  /\ Sort(accounts, "balanceAscending") # accounts
  /\ paymentSchedule # <<>>

(***************************************************************************)
(* C19: strategy lookup is case-insensitive: for a name that is a          *)
(* registered name up to letter case, optimizePayments returns a schedule, *)
(* and it is the schedule of the strategy registered under the lowercase   *)
(* name.                                                                   *)
(***************************************************************************)
LowercaseName == ToLowerCase(strategyName)

C19_LookupIgnoresCase ==
  (pc # "ready" /\ Registered(strategyName))
    => /\ ScheduleReturned
       /\ paymentSchedule =
            CalculatePayments(strategies[LowercaseName], accounts,
                              availableFunds, startDate)

\* a schedule with an entry returned for a name spelled with capitals
C19_Witness ==
  /\ ScheduleReturned
  /\ strategyName # LowercaseName
  /\ Registered(strategyName)
  /\ paymentSchedule # <<>>

(***************************************************************************)
(* C20: every monetary value is rounded to the minor unit before it is     *)
(* accumulated: with balances, funds and minimum payments in whole minor   *)
(* units, every amount of the schedule, every balance of the projection    *)
(* after a month's interest and payments, and the running total of         *)
(* payments is a whole number of minor units.                              *)
(***************************************************************************)
IsWholeMinorUnits(r) == 100 % r.d = 0

InputsInWholeMinorUnits ==
  /\ IsWholeMinorUnits(availableFunds)
  /\ \A i \in 1..Len(accounts) :
       /\ IsWholeMinorUnits(accounts[i].currentBalance)
       /\ IsWholeMinorUnits(accounts[i].minimumPayment)

C20_RoundedToMinorUnit ==
  (InputsInWholeMinorUnits /\ RPos(availableFunds) /\ NoNegativeBalance)
    => /\ \A j \in 1..Len(paymentSchedule) :
            IsWholeMinorUnits(paymentSchedule[j].amount)
       /\ \A i \in 1..Len(simulatedAccounts) :
            IsWholeMinorUnits(simulatedAccounts[i].remainingBalance)
       /\ IsWholeMinorUnits(totalPayments)

(***************************************************************************)
(* Decimal arithmetic.  A projection of more than a few months has more    *)
(* digits than a numerator of Rat can hold, so the projection is modelled  *)
(* a second time on non-negative decimals of any length:                   *)
(* [i |-> integer part, f |-> the digits after the point, two to a limb].  *)
(* No limb is dropped, so the arithmetic is exact as Rat is.               *)
(***************************************************************************)
ExampleMonths == 13      \* months of the while loop that are explored
QuotientLimbs == 6       \* limbs a quotient is carried to when it does not end

RECURSIVE DTrim(_)
DTrim(f) ==
  IF f = <<>> THEN f
  ELSE IF f[Len(f)] = 0 THEN DTrim(SubSeq(f, 1, Len(f) - 1))
  ELSE f

Dec(i, f) == [i |-> i, f |-> DTrim(f)]
DInt(n) == [i |-> n, f |-> <<>>]
DZero == DInt(0)

DPad(f, n) == [j \in 1..n |-> IF j <= Len(f) THEN f[j] ELSE 0]
DWidth(a, b) == IF Len(a.f) >= Len(b.f) THEN Len(a.f) ELSE Len(b.f)

RECURSIVE DAddLimbs(_, _, _, _, _)
DAddLimbs(fa, fb, k, carry, acc) ==
  IF k = 0 THEN [f |-> acc, carry |-> carry]
  ELSE LET s == fa[k] + fb[k] + carry
       IN  DAddLimbs(fa, fb, k - 1, s \div 100, <<s % 100>> \o acc)

\* a + b
DAdd(a, b) ==
  LET n == DWidth(a, b)
      r == DAddLimbs(DPad(a.f, n), DPad(b.f, n), n, 0, <<>>)
  IN  Dec(a.i + b.i + r.carry, r.f)

RECURSIVE DSubLimbs(_, _, _, _, _)
DSubLimbs(fa, fb, k, borrow, acc) ==
  IF k = 0 THEN [f |-> acc, borrow |-> borrow]
  ELSE LET s == fa[k] - fb[k] - borrow
       IN  IF s < 0
           THEN DSubLimbs(fa, fb, k - 1, 1, <<s + 100>> \o acc)
           ELSE DSubLimbs(fa, fb, k - 1, 0, <<s>> \o acc)

\* a - b, for b <= a
DSub(a, b) ==
  LET n == DWidth(a, b)
      r == DSubLimbs(DPad(a.f, n), DPad(b.f, n), n, 0, <<>>)
  IN  Dec(a.i - b.i - r.borrow, r.f)

DLimbsLt(fa, fb) ==
  \E k \in 1..Len(fa) :
    /\ fa[k] < fb[k]
    /\ \A j \in 1..(k - 1) : fa[j] = fb[j]

\* a < b, a <= b, a > 0
DLt(a, b) ==
  \/ a.i < b.i
  \/ /\ a.i = b.i
     /\ DLimbsLt(DPad(a.f, DWidth(a, b)), DPad(b.f, DWidth(a, b)))
DLe(a, b) == ~DLt(b, a)
DPos(a) == DLt(DZero, a)

\* Math.min(a, b)
DMin(a, b) == IF DLt(b, a) THEN b ELSE a

RECURSIVE DMulLimbs(_, _, _, _, _)
DMulLimbs(f, m, k, carry, acc) ==
  IF k = 0 THEN [f |-> acc, carry |-> carry]
  ELSE LET s == f[k] * m + carry
       IN  DMulLimbs(f, m, k - 1, s \div 100, <<s % 100>> \o acc)

\* a * m for a natural number m
DMulSmall(a, m) ==
  LET r == DMulLimbs(a.f, m, Len(a.f), 0, <<>>)
  IN  Dec(a.i * m + r.carry, r.f)

\* a / 100
DShift(a) == Dec(a.i \div 100, <<a.i % 100>> \o a.f)

RECURSIVE DMulFrom(_, _, _)
DMulFrom(sum, shifted, f) ==
  IF f = <<>> THEN sum
  ELSE DMulFrom(DAdd(sum, DMulSmall(shifted, Head(f))), DShift(shifted), Tail(f))

\* a * b
DMul(a, b) == DMulFrom(DMulSmall(a, b.i), DShift(a), b.f)

RECURSIVE DDivLimbs(_, _, _, _, _)
DDivLimbs(f, m, rem, acc, more) ==
  IF f = <<>>
  THEN IF rem = 0 \/ more = 0 THEN acc
       ELSE DDivLimbs(<<0>>, m, rem, acc, more - 1)
  ELSE LET cur == rem * 100 + Head(f)
       IN  DDivLimbs(Tail(f), m, cur % m, Append(acc, cur \div m), more)

\* a / m for a natural number m > 0, by long division
DDivSmall(a, m) == Dec(a.i \div m, DDivLimbs(a.f, m, a.i % m, <<>>, QuotientLimbs))

\* faulty variant: Math.floor(a / b), the greatest n with n * b <= a
DFloorDiv(a, b) ==
  CHOOSE n \in 0..(a.i + 1) * 100 :
    /\ DLe(DMulSmall(b, n), a)
    /\ DLt(a, DMulSmall(b, n + 1))

\* Math.ceil(a / b) for b > 0: the least n with a <= n * b
DCeilDiv(a, b) ==
  CHOOSE n \in 0..(a.i + 1) * 100 :
    /\ DLe(a, DMulSmall(b, n))
    /\ n > 0 => DLt(DMulSmall(b, n - 1), a)

(***************************************************************************)
(* calculateProjectedSavings on decimals                                   *)
(***************************************************************************)
\* simulatedAccounts.some(account => account.remainingBalance > 0)
DecSomeRemaining(sim) == \E i \in 1..Len(sim) : DPos(sim[i].remainingBalance)

\* account.remainingBalance * (account.interestRate / 12)
DecMonthlyInterestOf(balance, interestRate) ==
  DMul(balance, DDivSmall(interestRate, 12))

\* "Apply monthly interest"
DecApplyMonthlyInterest(sim) ==
  [i \in 1..Len(sim) |->
     IF DPos(sim[i].remainingBalance)
     THEN [sim[i] EXCEPT !.remainingBalance =
             DAdd(@, DecMonthlyInterestOf(@, sim[i].interestRate))]
     ELSE sim[i]]

\* Math.min(payment.amount, account.remainingBalance)
DecSimulatedPayment(payment, account) ==
  DMin(payment.amount, account.remainingBalance)

\* "Apply scheduled payments": st = [sim, totalPayments]
RECURSIVE DecApplyScheduledPayments(_, _)
DecApplyScheduledPayments(schedule, st) ==
  IF schedule = <<>> THEN st
  ELSE LET payment == Head(schedule)
           k == FindAccount(st.sim, payment.accountId)
       IN  IF k # 0 /\ DPos(st.sim[k].remainingBalance)
           THEN LET paymentAmount == DecSimulatedPayment(payment, st.sim[k])
                IN  DecApplyScheduledPayments(
                      Tail(schedule),
                      [sim |-> [st.sim EXCEPT ![k].remainingBalance =
                                  DSub(@, paymentAmount)],
                       totalPayments |-> DAdd(st.totalPayments, paymentAmount)])
           ELSE DecApplyScheduledPayments(Tail(schedule), st)

\* the body of the while loop, monthsToPayoff++ apart
DecLoopBody(schedule, sim, total) ==
  DecApplyScheduledPayments(
    schedule, [sim |-> DecApplyMonthlyInterest(sim), totalPayments |-> total])

\* the minimum payment is more than the first month's interest
DecAmortizing(account) ==
  DLt(DecMonthlyInterestOf(account.currentBalance, account.interestRate),
      account.minimumPayment)

\* Math.ceil(account.currentBalance / (monthlyPayment - monthlyInterest))
DecBaselineMonths(account) ==
  LET monthlyPayment == account.minimumPayment
      monthlyInterest ==
        DecMonthlyInterestOf(account.currentBalance, account.interestRate)
  IN  DCeilDiv(account.currentBalance, DSub(monthlyPayment, monthlyInterest))

\* one term of the reduce
DecBaselineTerm(account) ==
  DMulSmall(account.minimumPayment, DecBaselineMonths(account))

\* accounts.reduce((sum, account) => sum + ..., 0)
RECURSIVE DecOriginalTotalFrom(_, _)
DecOriginalTotalFrom(sum, accts) ==
  IF accts = <<>> THEN sum
  ELSE DecOriginalTotalFrom(DAdd(sum, DecBaselineTerm(Head(accts))), Tail(accts))

DecOriginalTotal(accts) == DecOriginalTotalFrom(DZero, accts)

\* a - b with its sign
DDiff(a, b) ==
  IF DLe(b, a) THEN [negative |-> FALSE, magnitude |-> DSub(a, b)]
  ELSE [negative |-> TRUE, magnitude |-> DSub(b, a)]

(***************************************************************************)
(* A caller that holds a schedule of one monthly payment to its one        *)
(* account and calls calculateProjectedSavings on it.  The accounts are    *)
(* (balance, limbs of the annual rate, minimumPayment).                    *)
(***************************************************************************)
ExampleAccountPool ==
  { <<1200, <<12>>, 110>>, <<600, <<12>>, 110>>, <<1200, <<24>>, 110>>,
    <<1200, <<6>>, 110>>, <<1200, <<>>, 110>> }

ExamplePayments == { 100, 110, 150, 200, 250, 400, 1300 }

DecAccount(p) ==
  [accountId |-> "acc1",
   currentBalance |-> DInt(p[1]),
   interestRate |-> Dec(0, p[2]),
   minimumPayment |-> DInt(p[3])]

ExampleInit ==
  /\ strategies = NewStrategies
  /\ strategyName = KeyAvalanche
  /\ accounts \in { <<DecAccount(p)>> : p \in ExampleAccountPool }
  /\ DecAmortizing(accounts[1])
  /\ availableFunds = DZero
  /\ startDate \in StartDates
  /\ pc = "optimized"
  /\ \E amount \in ExamplePayments :
       paymentSchedule = <<NewEntry(accounts[1], DInt(amount), startDate, <<>>)>>
  /\ thrown = ""
  /\ simulatedAccounts = <<>>
  /\ monthsToPayoff = 0
  /\ totalPayments = DZero
  /\ totalInterestSaved = DDiff(DZero, DZero)
  /\ availableStrategies = <<>>
  /\ ServiceIdle

\* calculateProjectedSavings, up to the first test of the while loop
DecBeginProjection ==
  /\ pc = "optimized"
  /\ simulatedAccounts' = CopyAccounts(accounts)
  /\ accounts' = AccountsAfterCopy(accounts)
  /\ monthsToPayoff' = 0
  /\ totalPayments' = DZero
  /\ totalInterestSaved' = DDiff(DZero, DZero)
  /\ pc' = "simulating"
  /\ UNCHANGED <<strategies, strategyName, availableFunds, startDate,
                 paymentSchedule, thrown>>
  /\ UNCHANGED availableStrategies
  /\ UNCHANGED serviceVars

\* one iteration of the while loop
DecSimulateMonth ==
  /\ pc = "simulating"
  /\ DecSomeRemaining(simulatedAccounts)
  /\ monthsToPayoff < ExampleMonths
  /\ LET st == DecLoopBody(paymentSchedule, simulatedAccounts, totalPayments)
     IN  /\ simulatedAccounts' = st.sim
         /\ totalPayments' = st.totalPayments
  /\ monthsToPayoff' = monthsToPayoff + 1
  /\ UNCHANGED <<inputs, pc, paymentSchedule, thrown, totalInterestSaved>>
  /\ UNCHANGED availableStrategies
  /\ UNCHANGED serviceVars

\* the loop condition is false: baseline, subtraction, return
DecReturnProjection ==
  /\ pc = "simulating"
  /\ ~DecSomeRemaining(simulatedAccounts)
  /\ totalInterestSaved' = DDiff(DecOriginalTotal(accounts), totalPayments)
  /\ pc' = "returned"
  /\ UNCHANGED <<inputs, paymentSchedule, thrown, simulatedAccounts,
                 monthsToPayoff, totalPayments>>
  /\ UNCHANGED availableStrategies
  /\ UNCHANGED serviceVars

ExampleNext ==
  \/ DecBeginProjection
  \/ DecSimulateMonth
  \/ DecReturnProjection

ExampleSpec == ExampleInit /\ [][ExampleNext]_vars

(***************************************************************************)
(* C15: for the single account with balance 1200, rate 0.12 and minimum    *)
(* payment 110 and a schedule paying it 200 a month, the baseline is 13    *)
(* months and 1430 in total, and the projection returns after fewer than   *)
(* 13 months with total payments below 1430 and interest saved above zero. *)
(***************************************************************************)
ExampleCase ==
  /\ accounts = <<DecAccount(<<1200, <<12>>, 110>>)>>
  /\ paymentSchedule[1].amount = DInt(200)

C15_ExampleProjection ==
  (pc = "returned" /\ ExampleCase)
    => /\ DecBaselineMonths(accounts[1]) = 13
       /\ DecOriginalTotal(accounts) = DInt(1430)
       /\ monthsToPayoff < 13
       /\ DLt(totalPayments, DInt(1430))
       /\ ~totalInterestSaved.negative
       /\ DPos(totalInterestSaved.magnitude)

\* the projection of the example has returned, after its seven months
C15_Witness ==
  /\ pc = "returned"
  /\ ExampleCase
  /\ monthsToPayoff = 7

(***************************************************************************)
(* Two callers sharing one engine.  Every variable but strategies holds    *)
(* one value for each caller: the arguments, position and results of that  *)
(* caller's calls.  The steps of the two callers interleave freely, month  *)
(* by month inside a projection.                                           *)
(***************************************************************************)
Callers == {"caller1", "caller2"}

CallerNames ==
  { KeyAvalanche, <<"H", "y", "B", "r", "i", "d">>, <<"c", "u", "s", "t", "o", "m">> }

CallerAccountLists ==
  { <<MakeAccount(1, <<500, 60, 50>>)>>,
    <<MakeAccount(1, <<1000, 12, 50>>), MakeAccount(2, <<500, 60, 50>>)>> }

CallerFunds == { RInt(300), RInt(5000) }

ConcurrentInit ==
  /\ strategies = NewStrategies
  /\ strategyName \in [Callers -> CallerNames]
  /\ accounts \in [Callers -> CallerAccountLists]
  /\ availableFunds \in [Callers -> CallerFunds]
  /\ startDate \in [Callers -> StartDates]
  /\ pc = [c \in Callers |-> "ready"]
  /\ paymentSchedule = [c \in Callers |-> <<>>]
  /\ thrown = [c \in Callers |-> ""]
  /\ simulatedAccounts = [c \in Callers |-> <<>>]
  /\ monthsToPayoff = [c \in Callers |-> 0]
  /\ totalPayments = [c \in Callers |-> RZero]
  /\ totalInterestSaved = [c \in Callers |-> Fin(RZero)]
  /\ availableStrategies = [c \in Callers |-> <<>>]
  /\ ServiceIdle

\* OptimizationEngine.getAvailableStrategies, called by c
CallerGetAvailableStrategies(c) ==
  /\ pc[c] # "simulating"
  /\ availableStrategies' = [availableStrategies EXCEPT ![c] = StrategyValues(strategies)]
  /\ strategies' = StrategiesAfterValues(strategies)
  /\ UNCHANGED <<strategyName, accounts, availableFunds, startDate, pc,
                 paymentSchedule, thrown, simulatedAccounts, monthsToPayoff,
                 totalPayments, totalInterestSaved>>
  /\ UNCHANGED serviceVars

\* OptimizationEngine.optimizePayments, called by c
CallerOptimizePayments(c) ==
  /\ pc[c] = "ready"
  /\ LET strategy == LookupStrategy(strategies, strategyName[c])
     IN  IF strategy = "undefined"
         THEN /\ thrown' = [thrown EXCEPT ![c] = "Unknown optimization strategy"]
              /\ pc' = [pc EXCEPT ![c] = "threw"]
              /\ UNCHANGED <<paymentSchedule, accounts>>
         ELSE /\ paymentSchedule' =
                   [paymentSchedule EXCEPT ![c] =
                      CalculatePayments(strategy, accounts[c], availableFunds[c],
                                        startDate[c])]
              /\ accounts' =
                   [accounts EXCEPT ![c] =
                      AccountsAfterCalculatePayments(strategy, accounts[c])]
              /\ pc' = [pc EXCEPT ![c] = "optimized"]
              /\ UNCHANGED thrown
  /\ strategies' = StrategiesAfterGet(strategies, strategyName[c])
  /\ UNCHANGED <<strategyName, availableFunds, startDate, simulatedAccounts,
                 monthsToPayoff, totalPayments, totalInterestSaved,
                 availableStrategies>>
  /\ UNCHANGED serviceVars

\* calculateProjectedSavings called by c, up to the first test of the while loop
CallerBeginProjection(c) ==
  /\ pc[c] = "optimized"
  /\ simulatedAccounts' = [simulatedAccounts EXCEPT ![c] = CopyAccounts(accounts[c])]
  /\ accounts' = [accounts EXCEPT ![c] = AccountsAfterCopy(accounts[c])]
  /\ monthsToPayoff' = [monthsToPayoff EXCEPT ![c] = 0]
  /\ totalPayments' = [totalPayments EXCEPT ![c] = RZero]
  /\ totalInterestSaved' = [totalInterestSaved EXCEPT ![c] = Fin(RZero)]
  /\ pc' = [pc EXCEPT ![c] = "simulating"]
  /\ UNCHANGED <<strategies, strategyName, availableFunds, startDate,
                 paymentSchedule, thrown, availableStrategies>>
  /\ UNCHANGED serviceVars

\* one iteration of the while loop of c's call
CallerSimulateMonth(c) ==
  /\ pc[c] = "simulating"
  /\ SomeRemaining(simulatedAccounts[c])
  /\ monthsToPayoff[c] < MaxMonths
  /\ LET st == LoopBody(paymentSchedule[c], simulatedAccounts[c], totalPayments[c])
     IN  /\ simulatedAccounts' = [simulatedAccounts EXCEPT ![c] = st.sim]
         /\ totalPayments' = [totalPayments EXCEPT ![c] = st.totalPayments]
  /\ monthsToPayoff' = [monthsToPayoff EXCEPT ![c] = @ + 1]
  /\ UNCHANGED <<inputs, pc, paymentSchedule, thrown, totalInterestSaved,
                 availableStrategies>>
  /\ UNCHANGED serviceVars

\* the loop condition of c's call is false: baseline, subtraction, return
CallerReturnProjection(c) ==
  /\ pc[c] = "simulating"
  /\ ~SomeRemaining(simulatedAccounts[c])
  /\ totalInterestSaved' =
       [totalInterestSaved EXCEPT ![c] =
          XSub(OriginalTotal(accounts[c]), totalPayments[c])]
  /\ pc' = [pc EXCEPT ![c] = "returned"]
  /\ UNCHANGED <<inputs, paymentSchedule, thrown, simulatedAccounts,
                 monthsToPayoff, totalPayments, availableStrategies>>
  /\ UNCHANGED serviceVars

ConcurrentNext ==
  \E c \in Callers :
    \/ CallerGetAvailableStrategies(c)
    \/ CallerOptimizePayments(c)
    \/ CallerBeginProjection(c)
    \/ CallerSimulateMonth(c)
    \/ CallerReturnProjection(c)

ConcurrentSpec == ConcurrentInit /\ [][ConcurrentNext]_vars

(***************************************************************************)
(* C18: the registry is read-only after construction and is the engine's   *)
(* only state: however the calls of two callers interleave, the registry   *)
(* maps exactly avalanche, snowball and hybrid to their strategies, and    *)
(* what a call has returned to its caller is what the call returns on an   *)
(* engine nobody else uses: the schedule or the error of optimizePayments, *)
(* the three numbers of calculateProjectedSavings, the list of             *)
(* getAvailableStrategies.                                                 *)
(***************************************************************************)
RegistryAsConstructed ==
  (KeyAvalanche :> "AvalancheStrategy") @@ (KeySnowball :> "SnowballStrategy")
    @@ (KeyHybrid :> "HybridStrategy")

\* the while loop of calculateProjectedSavings run on its own to its end
RECURSIVE ProjectionAlone(_, _, _, _)
ProjectionAlone(schedule, sim, total, months) ==
  IF SomeRemaining(sim) /\ months < MaxMonths
  THEN LET st == LoopBody(schedule, sim, total)
       IN  ProjectionAlone(schedule, st.sim, st.totalPayments, months + 1)
  ELSE [totalPayments |-> total, monthsToPayoff |-> months]

OptimizeAsAlone(c) ==
  IF ToLowerCase(strategyName[c]) \in DOMAIN RegistryAsConstructed
  THEN /\ pc[c] # "threw"
       /\ paymentSchedule[c] =
            CalculatePayments(RegistryAsConstructed[ToLowerCase(strategyName[c])],
                              accounts[c], availableFunds[c], startDate[c])
  ELSE /\ pc[c] = "threw"
       /\ thrown[c] = "Unknown optimization strategy"

ProjectAsAlone(c) ==
  LET alone == ProjectionAlone(paymentSchedule[c], CopyAccounts(accounts[c]), RZero, 0)
  IN  /\ monthsToPayoff[c] = alone.monthsToPayoff
      /\ totalPayments[c] = alone.totalPayments
      /\ totalInterestSaved[c] =
           XSub(OriginalTotal(accounts[c]), alone.totalPayments)

C18_RegistryReadOnly ==
  /\ strategies = RegistryAsConstructed
  /\ \A c \in Callers :
       /\ pc[c] # "ready" => OptimizeAsAlone(c)
       /\ pc[c] = "returned" => ProjectAsAlone(c)
       /\ availableStrategies[c] # <<>> =>
            availableStrategies[c] =
              <<"AvalancheStrategy", "SnowballStrategy", "HybridStrategy">>

\* one caller is a month into its projection, the other has been refused a
\* name that is not registered and has listed the strategies
C18_Witness ==
  \E c, d \in Callers :
    /\ c # d
    /\ pc[c] = "simulating"
    /\ monthsToPayoff[c] >= 1
    /\ pc[d] = "threw"
    /\ availableStrategies[d] # <<>>

(***************************************************************************)
(* C21: in every returned schedule the priority of the k-th entry is k:    *)
(* priorities start at 1 and go up by one, across the two loops of the     *)
(* hybrid strategy and past accounts that get no entry.                    *)
(***************************************************************************)
C21_PriorityIsPosition ==
  ScheduleReturned
    => \A k \in 1..Len(paymentSchedule) : paymentSchedule[k].priority = k

\* hybrid: one entry from each loop, the second loop having passed over an
\* account with nothing to pay
C21_Witness ==
  /\ ScheduleReturned
  /\ Uses(KeyHybrid)
  /\ Len(paymentSchedule) = 2
  /\ paymentSchedule[1].accountId = paymentSchedule[2].accountId
  /\ \E i \in 1..Len(accounts) :
       /\ accounts[i].currentBalance = RZero
       /\ IsLowBalance(accounts[i])

(***************************************************************************)
(* C22: avalanche: the entries of the schedule are in non-increasing       *)
(* interest rate of their accounts, and entries of accounts with equal     *)
(* rates are in the order the accounts have in the input.                  *)
(***************************************************************************)
\* position in the input of the account a schedule entry targets
TargetIndex(entry) ==
  CHOOSE i \in 1..Len(accounts) : accounts[i].accountId = entry.accountId

C22_AvalancheOrder ==
  (ScheduleReturned /\ Uses(KeyAvalanche))
    => \A j, k \in 1..Len(paymentSchedule) :
         j < k =>
           LET a == Target(paymentSchedule[j])
               b == Target(paymentSchedule[k])
           IN  /\ RLe(b.interestRate, a.interestRate)
               /\ a.interestRate = b.interestRate
                    => TargetIndex(paymentSchedule[j]) < TargetIndex(paymentSchedule[k])

\* two entries for accounts with the same rate
C22_Witness ==
  /\ ScheduleReturned
  /\ Uses(KeyAvalanche)
  /\ Len(paymentSchedule) = 2
  /\ Target(paymentSchedule[1]).interestRate = Target(paymentSchedule[2]).interestRate
  /\ Target(paymentSchedule[1]).currentBalance # Target(paymentSchedule[2]).currentBalance

(***************************************************************************)
(* C23: a simulated month first adds a month of interest to every account  *)
(* with a remaining balance above zero, then applies every entry of the    *)
(* schedule whose account still has a balance above zero, clamped to that  *)
(* balance; the same schedule is applied in every month, and               *)
(* monthsToPayoff counts the months simulated.                             *)
(***************************************************************************)
\* a balance after one month of interest
Accrued(account) ==
  IF RPos(account.remainingBalance)
  THEN RAdd(account.remainingBalance,
            RMul(account.remainingBalance, RDiv(account.interestRate, RInt(12))))
  ELSE account.remainingBalance

\* a balance after the entries of the schedule for its account, in order
RECURSIVE PaidDown(_, _, _)
PaidDown(balance, schedule, accountId) ==
  IF schedule = <<>> THEN balance
  ELSE IF Head(schedule).accountId = accountId /\ RPos(balance)
       THEN PaidDown(RSub(balance, MathMin(Head(schedule).amount, balance)),
                     Tail(schedule), accountId)
       ELSE PaidDown(balance, Tail(schedule), accountId)

C23_MonthStep ==
  [][/\ (pc = "simulating" /\ pc' = "simulating")
          => /\ monthsToPayoff' = monthsToPayoff + 1
             /\ Len(simulatedAccounts') = Len(simulatedAccounts)
             /\ \A i \in 1..Len(simulatedAccounts) :
                  simulatedAccounts'[i].remainingBalance =
                    PaidDown(Accrued(simulatedAccounts[i]), paymentSchedule,
                             simulatedAccounts[i].accountId)
     /\ (pc = "simulating" /\ pc' = "returned")
          => /\ monthsToPayoff' = monthsToPayoff
             /\ ~SomeRemaining(simulatedAccounts)]_vars

\* two months simulated, the whole schedule paid in each of them
C23_Witness ==
  /\ pc = "simulating"
  /\ monthsToPayoff = 2
  /\ paymentSchedule # <<>>
  /\ totalPayments = RMul(RInt(2), SumAmounts(paymentSchedule))
  /\ SomeRemaining(simulatedAccounts)

(***************************************************************************)
(* C24: when the entries of the schedule for each account with a balance   *)
(* above zero add up to more than the account's monthly interest           *)
(* currentBalance * interestRate / 12, the loop of the projection ends:    *)
(* the call returns with no balance above zero, after at most              *)
(* ceil(currentBalance / (scheduled - interest)) months for the slowest    *)
(* account.  Stated for the projections that end within the months         *)
(* explored.                                                               *)
(***************************************************************************)
RECURSIVE ScheduledFor(_, _)
ScheduledFor(schedule, accountId) ==
  IF schedule = <<>> THEN RZero
  ELSE IF Head(schedule).accountId = accountId
       THEN RAdd(Head(schedule).amount, ScheduledFor(Tail(schedule), accountId))
       ELSE ScheduledFor(Tail(schedule), accountId)

FirstMonthInterest(account) ==
  RMul(account.currentBalance, RDiv(account.interestRate, RInt(12)))

\* what the schedule pays an account each month beyond its first interest
Margin(account) ==
  RSub(ScheduledFor(paymentSchedule, account.accountId), FirstMonthInterest(account))

PaymentsExceedInterest ==
  \A i \in 1..Len(accounts) :
    RPos(accounts[i].currentBalance) => RPos(Margin(accounts[i]))

MonthsFor(account) ==
  IF RPos(account.currentBalance) /\ RPos(Margin(account))
  THEN RCeil(RDiv(account.currentBalance, Margin(account)))
  ELSE 0

MonthsNeeded ==
  IF accounts = <<>> THEN 0
  ELSE LET months == { MonthsFor(accounts[i]) : i \in 1..Len(accounts) }
       IN  CHOOSE m \in months : \A n \in months : n <= m

C24_PaidScheduleTerminates ==
  (pc = "simulating" /\ PaymentsExceedInterest /\ MonthsNeeded <= MaxMonths)
    ~> (/\ pc = "returned"
        /\ ~SomeRemaining(simulatedAccounts)
        /\ monthsToPayoff <= MonthsNeeded)

\* a projection that took three months has returned
C24_Witness ==
  /\ pc = "returned"
  /\ PaymentsExceedInterest
  /\ MonthsNeeded <= MaxMonths
  /\ monthsToPayoff >= 2
  /\ \E i \in 1..Len(accounts) : RPos(FirstMonthInterest(accounts[i]))

(***************************************************************************)
(* C25: avalanche and snowball are greedy: every entry of the schedule but *)
(* the last pays the whole currentBalance of its account, and the last     *)
(* pays either the whole balance or the funds that were left for it.       *)
(***************************************************************************)
UsesGreedy == Uses(KeyAvalanche) \/ Uses(KeySnowball)

PaysInFull(entry) == entry.amount = Target(entry).currentBalance

FundsLeftFor(k) ==
  RSub(availableFunds, SumAmounts(SubSeq(paymentSchedule, 1, k - 1)))

C25_OnlyLastIsPartial ==
  (ScheduleReturned /\ UsesGreedy)
    => \A k \in 1..Len(paymentSchedule) :
         \/ PaysInFull(paymentSchedule[k])
         \/ /\ k = Len(paymentSchedule)
            /\ paymentSchedule[k].amount = FundsLeftFor(k)

\* a full payment followed by a partial one
C25_Witness ==
  /\ ScheduleReturned
  /\ UsesGreedy
  /\ Len(paymentSchedule) = 2
  /\ PaysInFull(paymentSchedule[1])
  /\ RLt(paymentSchedule[2].amount, Target(paymentSchedule[2]).currentBalance)

(***************************************************************************)
(* C26: in the projection the remaining balance of an account whose        *)
(* currentBalance is not negative is never negative: a payment is clamped  *)
(* to the balance, so the account is paid down to exactly zero.            *)
(***************************************************************************)
InProjection == pc \in {"simulating", "returned"}

C26_NeverOverpaid ==
  InProjection
    => \A i \in 1..Len(simulatedAccounts) :
         RLe(RZero, accounts[i].currentBalance)
           => /\ RLe(RZero, simulatedAccounts[i].remainingBalance)
              /\ pc = "returned" => simulatedAccounts[i].remainingBalance = RZero

\* an account with a balance was paid off by a payment smaller than its entry
C26_Witness ==
  /\ pc = "returned"
  /\ monthsToPayoff >= 2
  /\ \E i \in 1..Len(accounts) : RPos(accounts[i].currentBalance)
  /\ RLt(totalPayments, RMul(RInt(monthsToPayoff), SumAmounts(paymentSchedule)))

(***************************************************************************)
(* C27: avalanche and snowball allocate all they can: with no negative     *)
(* balance and available funds of zero or more, the amounts of the         *)
(* schedule add up to the smaller of the available funds and the sum of    *)
(* the balances.                                                           *)
(***************************************************************************)
C27_AllocatesAllItCan ==
  (ScheduleReturned /\ UsesGreedy /\ NoNegativeBalance /\ RLe(RZero, availableFunds))
    => SumAmounts(paymentSchedule) = MathMin(availableFunds, SumBalances(accounts))

\* the walk passed an account with nothing to pay and went on to pay another
C27_Witness ==
  /\ ScheduleReturned
  /\ Uses(KeyAvalanche)
  /\ NoNegativeBalance
  /\ Len(accounts) = 2
  /\ \E i, j \in 1..2 :
       /\ accounts[i].currentBalance = RZero
       /\ RLt(accounts[j].interestRate, accounts[i].interestRate)
  /\ Len(paymentSchedule) = 1
  /\ SumAmounts(paymentSchedule) = availableFunds

(***************************************************************************)
(* C28: in a projection on accounts with no negative balance, what has     *)
(* been paid plus what remains is the sum of the initial balances plus the *)
(* interest accrued so far; so when the projection returns, totalPayments  *)
(* is the initial balances plus all the interest accrued.                  *)
(***************************************************************************)
\* the interest an account accrues in its first n months under the schedule
RECURSIVE InterestAccrued(_, _, _)
InterestAccrued(account, schedule, n) ==
  IF n = 0 THEN RZero
  ELSE LET accrued == Accrued(account)
           paid == PaidDown(accrued, schedule, account.accountId)
       IN  RAdd(RSub(accrued, account.remainingBalance),
                InterestAccrued([account EXCEPT !.remainingBalance = paid],
                                schedule, n - 1))

\* what an account has been paid: its balance and interest, less what remains
PaidTo(account, schedule, n) ==
  RAdd(RSub(account.currentBalance, account.remainingBalance),
       InterestAccrued([account EXCEPT !.remainingBalance = account.currentBalance],
                       schedule, n))

RECURSIVE SumPaidTo(_, _, _)
SumPaidTo(sim, schedule, n) ==
  IF sim = <<>> THEN RZero
  ELSE RAdd(PaidTo(Head(sim), schedule, n), SumPaidTo(Tail(sim), schedule, n))

C28_PaymentsConserved ==
  (InProjection /\ NoNegativeBalance)
    => /\ totalPayments = SumPaidTo(simulatedAccounts, paymentSchedule, monthsToPayoff)
       /\ pc = "returned"
            => \A i \in 1..Len(simulatedAccounts) :
                 simulatedAccounts[i].remainingBalance = RZero

\* a returned projection that paid interest on top of the balances
C28_Witness ==
  /\ pc = "returned"
  /\ NoNegativeBalance
  /\ monthsToPayoff >= 2
  /\ RLt(SumBalances(accounts), totalPayments)

(***************************************************************************)
(* CreditorIntegration.executeWithRetry: fn is called, and called again    *)
(* after a growing delay while it rejects and retries are left.  fn is the *)
(* creditor adapter's call, so whether it resolves or rejects is the       *)
(* environment's choice.                                                   *)
(***************************************************************************)
\* CreditorIntegration.retryConfig
maxRetries == 3
initialDelay == 1000
backoffFactor == 2

\* values fn resolves with (confirmation numbers of the adapters) and errors
\* fn rejects with
FnValues == { "CONF-A", "CONF-B" }
FnErrors == { "timeout", "unavailable", "declined" }

RECURSIVE Pow(_, _)
\* Math.pow on non-negative integers
Pow(base, exponent) ==
  IF exponent = 0 THEN 1 ELSE base * Pow(base, exponent - 1)

\* faulty variant: the delay grows by initialDelay per retry
RetryDelayLinear(count) == initialDelay * (count + 1)

\* the delay before the retry that follows the failure of attempt count
RetryDelay(count) == initialDelay * Pow(backoffFactor, count)

\* the test that ends the retries
RetriesExhausted(count) == count >= maxRetries

\* one payment as the creditor has processed it
LedgerEntry(payment, creditorId, confirmation) ==
  [creditorId |-> creditorId,
   accountId |-> payment.accountId,
   amount |-> payment.amount,
   confirmationNumber |-> confirmation]

\* creditorId of the DebtAccount built from the balances of the i-th creditor
CreditorIds == <<"creditor1", "creditor2", "creditor3", "creditor4">>

RECURSIVE CreditorIdFrom(_, _, _)
\* debtAccounts.find(account => account.accountId === accountId)?.creditorId
CreditorIdFrom(debtAccounts, accountId, i) ==
  IF i > Len(debtAccounts) THEN "undefined"
  ELSE IF debtAccounts[i].accountId = accountId THEN CreditorIds[i]
  ELSE CreditorIdFrom(debtAccounts, accountId, i + 1)

CreditorIdOf(debtAccounts, accountId) == CreditorIdFrom(debtAccounts, accountId, 1)

\* faulty variant: the schedule walked from its last entry
PaymentAtReversed(schedule, i) == schedule[Len(schedule) + 1 - i]

\* the i-th payment the for-of loop of processRoundup visits
PaymentAt(schedule, i) == schedule[i]

\* await fn() resolves; inside makePayment fn is the adapter's makePayment,
\* which has then processed the payment
FnResolves ==
  /\ retryPc = "attempting"
  /\ \E v \in FnValues :
       /\ fnOutcomes' = Append(fnOutcomes, [ok |-> TRUE, value |-> v])
       /\ retryResult' = v
       /\ ledger' =
            IF roundupPc = "calling"
            THEN LET payment == PaymentAt(paymentSchedule, paymentIndex)
                 IN  Append(ledger,
                            LedgerEntry(payment,
                                        CreditorIdOf(accounts, payment.accountId), v))
            ELSE ledger
  /\ retryPc' = "returned"
  /\ UNCHANGED <<strategies, strategyName, accounts, availableFunds, startDate,
                 pc, paymentSchedule, thrown, simulatedAccounts, monthsToPayoff,
                 totalPayments, totalInterestSaved, availableStrategies>>
  /\ UNCHANGED <<roundupPc, paymentIndex, attempted, roundupError, retryCount,
                 delays>>

\* await fn() rejects: rethrow when the retries are used up, otherwise
\* compute the delay and start the timer
FnRejects ==
  /\ retryPc = "attempting"
  /\ \E e \in FnErrors :
       /\ fnOutcomes' = Append(fnOutcomes, [ok |-> FALSE, value |-> e])
       /\ IF RetriesExhausted(retryCount)
          THEN /\ retryResult' = e
               /\ retryPc' = "threw"
               /\ UNCHANGED delays
          ELSE /\ delays' = Append(delays, RetryDelay(retryCount))
               /\ retryPc' = "waiting"
               /\ UNCHANGED retryResult
  /\ UNCHANGED <<strategies, strategyName, accounts, availableFunds, startDate,
                 pc, paymentSchedule, thrown, simulatedAccounts, monthsToPayoff,
                 totalPayments, totalInterestSaved, availableStrategies>>
  /\ UNCHANGED <<roundupPc, paymentIndex, attempted, ledger, roundupError,
                 retryCount>>

\* the timer fires: executeWithRetry(fn, retryCount + 1)
TimerFires ==
  /\ retryPc = "waiting"
  /\ retryCount' = retryCount + 1
  /\ retryPc' = "attempting"
  /\ UNCHANGED <<strategies, strategyName, accounts, availableFunds, startDate,
                 pc, paymentSchedule, thrown, simulatedAccounts, monthsToPayoff,
                 totalPayments, totalInterestSaved, availableStrategies>>
  /\ UNCHANGED <<roundupPc, paymentIndex, attempted, ledger, roundupError,
                 fnOutcomes, delays, retryResult>>

\* one call executeWithRetry(fn) with the default retryCount, the engine idle
RetryInit ==
  /\ strategies = NewStrategies
  /\ strategyName = KeyHybrid
  /\ accounts = <<>>
  /\ availableFunds = RZero
  /\ startDate \in StartDates
  /\ pc = "ready"
  /\ paymentSchedule = <<>>
  /\ thrown = ""
  /\ simulatedAccounts = <<>>
  /\ monthsToPayoff = 0
  /\ totalPayments = RZero
  /\ totalInterestSaved = Fin(RZero)
  /\ availableStrategies = <<>>
  /\ roundupPc = "idle"
  /\ paymentIndex = 0
  /\ attempted = <<>>
  /\ ledger = <<>>
  /\ roundupError = ""
  /\ retryPc = "attempting"
  /\ retryCount = 0
  /\ fnOutcomes = <<>>
  /\ delays = <<>>
  /\ retryResult = "none"

RetryNext ==
  \/ FnResolves
  \/ FnRejects
  \/ TimerFires

RetrySpec == RetryInit /\ [][RetryNext]_vars

\* the calls of fn made so far that rejected
Failures(outcomes) == { i \in 1..Len(outcomes) : ~outcomes[i].ok }

\* the delays a call that has failed n times has waited
DelaysAfter(n) == [i \in 1..n |-> CASE i = 1 -> 1000 [] i = 2 -> 2000 [] OTHER -> 4000]

\* C30: executeWithRetry calls fn at most 4 times, 1 attempt and 3 retries;
\* the waits before the retries are 1000, 2000 and 4000 ms in that order; no
\* call follows a call that resolved, and the value returned is the value of
\* that call; the call throws only after 4 rejected calls, and throws the
\* error of the last one.
C30_RetryWithBackoff ==
  LET n == Len(fnOutcomes)
  IN  /\ n <= 4
      /\ \A i \in 1..(n - 1) : ~fnOutcomes[i].ok
      /\ Len(delays) <= 3
      /\ delays = DelaysAfter(Len(delays))
      /\ retryPc = "attempting" => Len(delays) = n
      /\ retryPc = "waiting" => Len(delays) = n /\ Failures(fnOutcomes) = 1..n
      /\ retryPc = "returned" =>
           /\ n >= 1
           /\ fnOutcomes[n].ok
           /\ retryResult = fnOutcomes[n].value
           /\ Len(delays) = n - 1
      /\ retryPc = "threw" =>
           /\ n = 4
           /\ Failures(fnOutcomes) = 1..4
           /\ retryResult = fnOutcomes[4].value
           /\ delays = <<1000, 2000, 4000>>

\* fn rejected three times and resolved on the last retry
C30_Witness ==
  /\ retryPc = "returned"
  /\ Len(fnOutcomes) = 4
  /\ delays = <<1000, 2000, 4000>>
  /\ retryResult = "CONF-B"

(***************************************************************************)
(* MicroRepayService.processRoundup: profile, balances, schedule,          *)
(* projection, then one makePayment per schedule entry, each awaited       *)
(* before the next; the catch around all of it rethrows.  The balances     *)
(* come from the creditors and are drawn from AccountLists; the i-th       *)
(* account is the one linked at the i-th creditor.                         *)
(***************************************************************************)
\* userProfile.preferences.optimizationStrategy of getUserProfile
ProfileStrategy == KeyHybrid

\* getUserCreditors: one linked account per creditor
UserCreditors ==
  { [creditorId |-> CreditorIds[i], accountId |-> AccountIds[i]] :
      i \in 1..Len(AccountIds) }

\* userCreditors.find(link => link.creditorId === creditorId &&
\*                            link.accountId === accountId) finds a link
HasCreditorLink(creditorId, accountId) ==
  \E link \in UserCreditors :
    link.creditorId = creditorId /\ link.accountId = accountId

\* processRoundup(userId, amount) has been called
RoundupInit ==
  /\ strategies = NewStrategies
  /\ strategyName = <<>>
  /\ accounts = <<>>
  /\ availableFunds \in FundsValues
  /\ startDate \in StartDates
  /\ pc = "ready"
  /\ paymentSchedule = <<>>
  /\ thrown = ""
  /\ simulatedAccounts = <<>>
  /\ monthsToPayoff = 0
  /\ totalPayments = RZero
  /\ totalInterestSaved = Fin(RZero)
  /\ availableStrategies = <<>>
  /\ roundupPc = "profile"
  /\ paymentIndex = 0
  /\ attempted = <<>>
  /\ ledger = <<>>
  /\ roundupError = ""
  /\ retryPc = "idle"
  /\ retryCount = 0
  /\ fnOutcomes = <<>>
  /\ delays = <<>>
  /\ retryResult = "none"

\* step 1: await this.getUserProfile(userId)
GetUserProfile ==
  /\ roundupPc = "profile"
  /\ strategyName' = ProfileStrategy
  /\ roundupPc' = "balances"
  /\ UNCHANGED <<strategies, accounts, availableFunds, startDate, pc,
                 paymentSchedule, thrown, simulatedAccounts, monthsToPayoff,
                 totalPayments, totalInterestSaved, availableStrategies>>
  /\ UNCHANGED <<paymentIndex, attempted, ledger, roundupError, retryPc,
                 retryCount, fnOutcomes, delays, retryResult>>

\* steps 2 and 3: await getDebtBalances(userId), balances to DebtAccounts
GetDebtBalances ==
  /\ roundupPc = "balances"
  /\ accounts' \in AccountLists
  /\ roundupPc' = "engine"
  /\ UNCHANGED <<strategies, strategyName, availableFunds, startDate, pc,
                 paymentSchedule, thrown, simulatedAccounts, monthsToPayoff,
                 totalPayments, totalInterestSaved, availableStrategies>>
  /\ UNCHANGED <<paymentIndex, attempted, ledger, roundupError, retryPc,
                 retryCount, fnOutcomes, delays, retryResult>>

\* step 4: this.optimizationEngine.optimizePayments(...)
RoundupOptimizePayments == roundupPc = "engine" /\ OptimizePayments

\* step 5: this.optimizationEngine.calculateProjectedSavings(...)
RoundupBeginProjection == roundupPc = "engine" /\ BeginProjection

RoundupSimulateMonth == roundupPc = "engine" /\ SimulateMonth

RoundupReturnProjection == roundupPc = "engine" /\ ReturnProjection

\* step 6: the pending transaction, then the for loop is entered
CreateTransaction ==
  /\ roundupPc = "engine"
  /\ pc = "returned"
  /\ paymentIndex' = 1
  /\ roundupPc' = "paying"
  /\ UNCHANGED <<strategies, strategyName, accounts, availableFunds, startDate,
                 pc, paymentSchedule, thrown, simulatedAccounts, monthsToPayoff,
                 totalPayments, totalInterestSaved, availableStrategies>>
  /\ UNCHANGED <<attempted, ledger, roundupError, retryPc, retryCount,
                 fnOutcomes, delays, retryResult>>

\* step 7, one iteration up to its await: the creditor of the payment's
\* account is looked up and makePayment is called, which checks the user's
\* link and calls executeWithRetry
CallMakePayment ==
  /\ roundupPc = "paying"
  /\ paymentIndex <= Len(paymentSchedule)
  /\ LET payment == PaymentAt(paymentSchedule, paymentIndex)
         creditorId == CreditorIdOf(accounts, payment.accountId)
     IN  IF creditorId = "undefined"
         THEN /\ paymentIndex' = paymentIndex + 1
              /\ UNCHANGED <<roundupPc, attempted, roundupError, retryPc,
                             retryCount, fnOutcomes, delays, retryResult>>
         ELSE /\ attempted' = Append(attempted, paymentIndex)
              /\ UNCHANGED paymentIndex
              /\ IF HasCreditorLink(creditorId, payment.accountId)
                 THEN /\ roundupPc' = "calling"
                      /\ retryPc' = "attempting"
                      /\ retryCount' = 0
                      /\ fnOutcomes' = <<>>
                      /\ delays' = <<>>
                      /\ retryResult' = "none"
                      /\ UNCHANGED roundupError
                 ELSE /\ roundupPc' = "rejected"
                      /\ roundupError' = "Failed to process roundup"
                      /\ UNCHANGED <<retryPc, retryCount, fnOutcomes, delays,
                                     retryResult>>
  /\ UNCHANGED ledger
  /\ UNCHANGED <<strategies, strategyName, accounts, availableFunds, startDate,
                 pc, paymentSchedule, thrown, simulatedAccounts, monthsToPayoff,
                 totalPayments, totalInterestSaved, availableStrategies>>

\* executeWithRetry returned: makePayment logs the payment and returns, and
\* the for loop moves to the next entry
PaymentReturns ==
  /\ roundupPc = "calling"
  /\ retryPc = "returned"
  /\ paymentIndex' = paymentIndex + 1
  /\ roundupPc' = "paying"
  /\ retryPc' = "idle"
  /\ UNCHANGED <<strategies, strategyName, accounts, availableFunds, startDate,
                 pc, paymentSchedule, thrown, simulatedAccounts, monthsToPayoff,
                 totalPayments, totalInterestSaved, availableStrategies>>
  /\ UNCHANGED <<attempted, ledger, roundupError, retryCount, fnOutcomes,
                 delays, retryResult>>

\* the catch of processRoundup: the engine threw, or executeWithRetry threw
\* and makePayment logged the failure and threw in turn
RejectRoundup ==
  /\ IF roundupPc = "engine"
     THEN pc = "threw"
     ELSE roundupPc = "calling" /\ retryPc = "threw"
  /\ roundupPc' = "rejected"
  /\ roundupError' = "Failed to process roundup"
  /\ retryPc' = "idle"
  /\ UNCHANGED <<strategies, strategyName, accounts, availableFunds, startDate,
                 pc, paymentSchedule, thrown, simulatedAccounts, monthsToPayoff,
                 totalPayments, totalInterestSaved, availableStrategies>>
  /\ UNCHANGED <<paymentIndex, attempted, ledger, retryCount, fnOutcomes,
                 delays, retryResult>>

\* steps 8 to 10 after the loop: the analytics and gamification calls are
\* awaited inside the try, so the call resolves with success or rejects
CompleteRoundup ==
  /\ roundupPc = "paying"
  /\ paymentIndex > Len(paymentSchedule)
  /\ \E updatesSucceed \in BOOLEAN :
       IF updatesSucceed
       THEN roundupPc' = "resolved" /\ UNCHANGED roundupError
       ELSE roundupPc' = "rejected" /\ roundupError' = "Failed to process roundup"
  /\ UNCHANGED <<strategies, strategyName, accounts, availableFunds, startDate,
                 pc, paymentSchedule, thrown, simulatedAccounts, monthsToPayoff,
                 totalPayments, totalInterestSaved, availableStrategies>>
  /\ UNCHANGED <<paymentIndex, attempted, ledger, retryPc, retryCount,
                 fnOutcomes, delays, retryResult>>

RoundupNext ==
  \/ GetUserProfile
  \/ GetDebtBalances
  \/ RoundupOptimizePayments
  \/ RoundupBeginProjection
  \/ RoundupSimulateMonth
  \/ RoundupReturnProjection
  \/ CreateTransaction
  \/ CallMakePayment
  \/ FnResolves
  \/ FnRejects
  \/ TimerFires
  \/ PaymentReturns
  \/ RejectRoundup
  \/ CompleteRoundup

RoundupSpec == RoundupInit /\ [][RoundupNext]_vars

\* s is an initial part of t
IsPrefix(s, t) == Len(s) <= Len(t) /\ \A i \in 1..Len(s) : s[i] = t[i]

\* what the ledger shows of its first n payments: account and amount
PaidSoFar == [i \in 1..Len(ledger) |->
                [accountId |-> ledger[i].accountId, amount |-> ledger[i].amount]]

\* the first n entries of the schedule, as account and amount
Scheduled(n) == [i \in 1..n |->
                   [accountId |-> paymentSchedule[i].accountId,
                    amount |-> paymentSchedule[i].amount]]

\* in every state of a processRoundup call
C29_StateOfPayments ==
  LET k == Len(attempted)
  IN  \* the calls of makePayment are those of priority 1, 2, ... in order
      /\ k <= Len(paymentSchedule)
      /\ \A i \in 1..k : paymentSchedule[attempted[i]].priority = i
      \* none is made before the schedule and the projection are there
      /\ k > 0 => pc = "returned"
      \* one at a time: every payment before the last one called has been
      \* processed, exactly as scheduled, before the next is called
      /\ Len(ledger) \in { k - 1, k } \cap Nat
      /\ PaidSoFar = Scheduled(Len(ledger))
      /\ Len(ledger) < k => roundupPc \in { "calling", "rejected" }
      \* success is returned only when every entry has been paid
      /\ roundupPc = "resolved" => Len(ledger) = Len(paymentSchedule)
      \* a rejection carries the message of the catch
      /\ roundupPc = "rejected" => roundupError = "Failed to process roundup"
      /\ roundupPc # "rejected" => roundupError = ""
      \* a payment that threw ends the call by rejection
      /\ (roundupPc = "calling" /\ retryPc = "threw") =>
           Len(ledger) = k - 1

\* C29: processRoundup calls makePayment for the schedule entries one at a
\* time in priority order, and only once schedule and projection have been
\* computed; the ledger of processed payments only grows; when a payment has
\* thrown the only step left is the rejection with 'Failed to process
\* roundup', which calls no further payment and leaves the ledger as it was,
\* and the call never reports success afterwards.
C29_PaymentsInOrderUntilFailure ==
  /\ []C29_StateOfPayments
  /\ [][/\ IsPrefix(ledger, ledger')
        /\ IsPrefix(attempted, attempted')
        /\ (roundupPc = "calling" /\ retryPc = "threw") =>
             /\ roundupPc' = "rejected"
             /\ roundupError' = "Failed to process roundup"
             /\ ledger' = ledger
             /\ attempted' = attempted
        /\ roundupPc = "rejected" => roundupPc' = "rejected"]_vars

\* the second of four payments threw after its retries: the first stays
\* processed, the third and fourth were never called, the call rejected
C29_Witness ==
  /\ roundupPc = "rejected"
  /\ Len(paymentSchedule) = 4
  /\ attempted = <<1, 2>>
  /\ Len(ledger) = 1
  /\ Len(fnOutcomes) = 4
  /\ roundupError = "Failed to process roundup"

====
